---------------------------- MODULE Spec2Model ----------------------------
(***************************************************************************)
(* Model of the filter-synthesis and component-matching engine of          *)
(* rf-filter-calculator (filter_lib).                                      *)
(*                                                                         *)
(* The engine is a library of pure functions over Python floats.  A call   *)
(* is one action: it draws its arguments from a bounded set, runs the      *)
(* function and records the arguments and the outcome (a returned value or *)
(* a raised ValueError) in the state.                                      *)
(*                                                                         *)
(* Python floats are binary floating-point numbers.  They are modelled as  *)
(* binary floating-point numbers of MantissaBits significant bits with     *)
(* round-to-nearest-even after every operation, exactly as IEEE-754 does   *)
(* with 53 bits: an equality that holds only up to rounding in the code    *)
(* holds only up to rounding in the model.                                 *)
(***************************************************************************)
EXTENDS Integers, Sequences, FiniteSets, TLC

VARIABLES
    op,      \* the function called last, or the wizard that runs
    args,    \* its arguments; in a wizard, the local variables assigned so far
    result,  \* what it returned or raised
    tables,  \* the contents of the module-level tables
    held,    \* the list objects the callers hold from earlier calls
    pc,      \* the statement a wizard is at
    asked    \* the prompts a wizard has put in the current pass of its loop

vars == <<op, args, result, tables, held, pc, asked>>

(***************************************************************************)
(* Bounds of the model.                                                    *)
(***************************************************************************)
\* significant bits of a modelled float (a Python float has 53)
MantissaBits == 12

\* the values of the model lie in 10^(-MaxNegDecade) .. 10^MaxDecade
MaxNegDecade == 10

MaxDecade == 7

(***************************************************************************)
(* Binary floating point.  A float is a record [m, e] that stands for      *)
(* m * 2^e; it is 0 (m = 0, e = 0) or normalised:                          *)
(* 2^(MantissaBits-1) <= |m| < 2^MantissaBits.                             *)
(***************************************************************************)
Pow2(k) == 2 ^ k

Abs(x) == IF x < 0 THEN -x ELSE x

Sgn(x) == IF x < 0 THEN -1 ELSE IF x > 0 THEN 1 ELSE 0

\* TRUE, once v has its value.  An argument of an operator is evaluated where
\* it is first used; a loop names the values of an iteration in the guard of
\* a CASE, so that they are computed before the next iteration begins and not
\* nested inside the last one.
Computed(v) == v = v

\* number of bits of the natural number x < 2^31 (0 for 0), by halving the
\* width w = 16, 8, 4, 2, 1
RECURSIVE BitLenStep(_, _, _)
BitLenStep(x, acc, w) ==
    IF w = 0 THEN acc + x
    ELSE IF x >= Pow2(w) THEN BitLenStep(x \div Pow2(w), acc + w, w \div 2)
                         ELSE BitLenStep(x, acc, w \div 2)

BitLen(x) == BitLenStep(x, 0, 16)

FZero == [m |-> 0, e |-> 0]

\* s * q * 2^E for a rounded q <= 2^MantissaBits, renormalised when the
\* rounding carried into the next bit
Carry(s, q, E) ==
    IF q = Pow2(MantissaBits) THEN [m |-> s * Pow2(MantissaBits - 1), e |-> E + 1]
                              ELSE [m |-> s * q, e |-> E]

\* s * M * 2^E for M > 0 with k bits more than a float has: shifted left, or
\* rounded to nearest, ties to even (add half - 1 + the kept lowest bit, cut)
RoundBits(s, M, E, k) ==
    IF k <= 0 THEN [m |-> s * M * Pow2(0 - k), e |-> E + k]
    ELSE Carry(s, (M + (Pow2(k - 1) - 1) + ((M \div Pow2(k)) % 2)) \div Pow2(k),
               E + k)

\* the float nearest to s * M * 2^E (M >= 0, s = +-1), ties to even
Round(s, M, E) ==
    IF M = 0 THEN FZero ELSE RoundBits(s, M, E, BitLen(M) - MantissaBits)

\* int -> float conversion
FInt(n) == Round(Sgn(n), Abs(n), 0)

FNeg(a) == [m |-> -a.m, e |-> a.e]

FAbs(a) == [m |-> Abs(a.m), e |-> a.e]

\* a * b
FMul(a, b) == Round(Sgn(a.m) * Sgn(b.m), Abs(a.m) * Abs(b.m), a.e + b.e)

\* 2 * floor(num / den), plus 1 (a sticky bit) when the division is inexact
StickyDiv(num, den) == 2 * (num \div den) + (IF num % den = 0 THEN 0 ELSE 1)

\* a / b (b # 0)
FDiv(a, b) ==
    Round(Sgn(a.m) * Sgn(b.m),
          StickyDiv(Abs(a.m) * Pow2(MantissaBits + 2), Abs(b.m)),
          a.e - b.e - (MantissaBits + 3))

\* the float nearest to M * 2^E for an integer M
RoundSigned(M, E) == Round(Sgn(M), Abs(M), E)

\* hi + lo where hi.e >= lo.e, both non-zero; an addend more than
\* MantissaBits + 2 binary places below the other only decides the rounding
FAddOrdered(hi, lo) ==
    RoundSigned(IF hi.e - lo.e > MantissaBits + 2
                THEN 8 * hi.m + Sgn(lo.m)
                ELSE hi.m * Pow2(hi.e - lo.e) + lo.m,
                IF hi.e - lo.e > MantissaBits + 2 THEN hi.e - 3 ELSE lo.e)

\* a + b
FAdd(a, b) ==
    IF a.m = 0 THEN b
    ELSE IF b.m = 0 THEN a
    ELSE FAddOrdered(IF a.e >= b.e THEN a ELSE b, IF a.e >= b.e THEN b ELSE a)

\* a - b
FSub(a, b) == FAdd(a, FNeg(b))

\* a < b
FLt(a, b) ==
    IF Sgn(a.m) # Sgn(b.m) THEN Sgn(a.m) < Sgn(b.m)
    ELSE IF a.m = 0 THEN FALSE
    ELSE IF a.m > 0 THEN a.e < b.e \/ (a.e = b.e /\ a.m < b.m)
    ELSE a.e > b.e \/ (a.e = b.e /\ a.m < b.m)

FLe(a, b) == a = b \/ FLt(a, b)

FGt(a, b) == FLt(b, a)

FGe(a, b) == FLe(b, a)

FMax(a, b) == IF FLt(a, b) THEN b ELSE a

FMin(a, b) == IF FLt(b, a) THEN b ELSE a

\* floor(num * 2^k / den) and the remainder, by long division (rem < den),
\* as many binary places at a time as keep rem * 2^c below 2^30
RECURSIVE LongDiv(_, _, _, _)
LongDiv(rem, den, k, Q) ==
    LET Places(c) ==
            LongDiv((rem * Pow2(c)) % den, den, k - c,
                    Q * Pow2(c) + (rem * Pow2(c)) \div den)
        Width(w) == IF w < 1 THEN 1 ELSE IF w > k THEN k ELSE w
    IN  IF k = 0 THEN <<Q, rem>>
        ELSE Places(Width(30 - BitLen(den)))

\* the number k of binary places that make num * 2^k / den an integer of
\* MantissaBits + 2 bits or more
RatPlaces(num, den) ==
    IF num >= den
    THEN IF BitLen(num \div den) >= MantissaBits + 2 THEN 0
         ELSE MantissaBits + 2 - BitLen(num \div den)
    ELSE MantissaBits + 3 + BitLen(den) - BitLen(num)

\* num * 2^k / den as an integer with one more binary place, a sticky bit
\* that is 0 iff the division is exact: 2 * floor(num * 2^k / den), plus 1
QuotientBits(num, den, k) ==
    LET Sticky(qr) == 2 * qr[1] + (IF qr[2] = 0 THEN 0 ELSE 1)
    IN  Sticky(LongDiv(num % den, den, k, num \div den))

\* the float nearest to s * (num/den) * 2^E  (num >= 0, den > 0)
FRat(s, num, den, E) ==
    LET Divide(k) == Round(s, QuotientBits(num, den, k), E - (k + 1))
    IN  IF num = 0 THEN FZero ELSE Divide(RatPlaces(num, den))

\* the float of the decimal literal n * 10^(-q)  (n >= 0, q >= 0)
FDec(n, q) == FRat(1, n, 5 ^ q, 0 - q)

\* a * n and a / n for a float a and a positive int n = 5^f * 2^t (Python
\* converts the int operand to a float exactly, so the result is rounded once)
FMulInt(a, f, t) == Round(Sgn(a.m), Abs(a.m) * (5 ^ f), a.e + t)

FDivInt(a, f, t) == FRat(Sgn(a.m), Abs(a.m), 5 ^ f, a.e - t)

\* the float nearest to s * a * b * 2^E for ints 0 <= a, b < 2^26 whose
\* product may exceed the integers of the checker: the product in three limbs
\* of LimbBits bits, the low limbs kept as a sticky bit
LimbBits == MantissaBits + 1

WideProduct(s, a, b, E) ==
    LET B == Pow2(LimbBits)
        Top(l2, l1, l0) ==
            IF l2 >= Pow2(MantissaBits + 1)
            THEN Round(s, 2 * l2 + (IF l1 # 0 \/ l0 # 0 THEN 1 ELSE 0),
                       E + 2 * LimbBits - 1)
            ELSE Round(s, 2 * (l2 * B + l1) + (IF l0 # 0 THEN 1 ELSE 0),
                       E + LimbBits - 1)
        CarryHigh(L2, L1, l0) == Top(L2 + L1 \div B, L1 % B, l0)
        CarryLow(L2, L1, L0) == CarryHigh(L2, L1 + L0 \div B, L0 % B)
        Limbs(aH, aL, bH, bL) == CarryLow(aH * bH, aH * bL + aL * bH, aL * bL)
    IN  IF a = 0 \/ b = 0 THEN FZero
        ELSE IF a <= Pow2(30) \div b THEN Round(s, a * b, E)
        ELSE Limbs(a \div B, a % B, b \div B, b % B)

\* c * x for an int c and a float x (the int is converted exactly)
IntTimesFloat(c, x) == WideProduct(Sgn(c) * Sgn(x.m), Abs(c), Abs(x.m), x.e)

(***************************************************************************)
(* The math library.  math.sqrt is correctly rounded.  The other functions *)
(* are evaluated in fixed point with GuardBits more fractional bits than a *)
(* float has significant bits and rounded once, so they are within one     *)
(* unit in the last place like the C library's, except where the result is *)
(* close to zero (math.log10 near 1, math.sin and math.cos near their      *)
(* zeros): there the absolute error is below 2^-(FixBits - 3).             *)
(***************************************************************************)
GuardBits == 8

FixBits == MantissaBits + GuardBits

FixOne == Pow2(FixBits)

\* float x (0 <= x < 2^10) to fixed point
ToFix(x) ==
    IF x.e + FixBits >= 0 THEN x.m * Pow2(x.e + FixBits)
                          ELSE x.m \div Pow2(0 - (x.e + FixBits))

\* a * b in fixed point (a, b >= 0), by halves to stay within 31 bits
HalfBits == (FixBits + 1) \div 2

MulFix(a, b) ==
    LET Halves(aHi, aLo, bHi, bLo) ==
            aHi * bHi * Pow2(2 * HalfBits - FixBits)
              + (aHi * bLo + aLo * bHi) \div Pow2(FixBits - HalfBits)
              + (aLo * bLo) \div FixOne
    IN  Halves(a \div Pow2(HalfBits), a % Pow2(HalfBits),
               b \div Pow2(HalfBits), b % Pow2(HalfBits))

\* a / b in fixed point (0 <= a < b)
DivFix(a, b) == LongDiv(a, b, FixBits, 0)[1]

\* sum over k >= from of (-1)^k x^(2k+1)/(2k+1)!, given the term of k
RECURSIVE SinSeries(_, _, _, _)
SinSeries(term, x2, k, sum) ==
    IF term = 0 THEN sum
    ELSE CASE Computed(sum) ->
            SinSeries(MulFix(term, x2) \div ((2 * k + 2) * (2 * k + 3)), x2, k + 1,
                      IF k % 2 = 0 THEN sum + term ELSE sum - term)

\* math.sin(x) for 0 <= x < 4
FSin(x) ==
    LET Series(fx) == RoundSigned(SinSeries(fx, MulFix(fx, fx), 0, 0), 0 - FixBits)
    IN  Series(ToFix(x))

\* math.pi
FPi == Round(1, 843314857, 0 - 28)

\* ln 2 in fixed point
Ln2Fix == 744261118 \div Pow2(30 - FixBits)

\* sum over k >= from of r^k/k!, given the term of k
RECURSIVE ExpSeries(_, _, _, _)
ExpSeries(term, r, k, sum) ==
    IF term = 0 THEN sum
    ELSE CASE Computed(sum) ->
            ExpSeries(MulFix(term, r) \div (k + 1), r, k + 1, sum + term)

\* e^x in fixed point for a fixed-point x, 0 <= x < 8: e^x = 2^k * e^r
ExpFix(fx) ==
    LET Scale(k) == ExpSeries(FixOne, fx - k * Ln2Fix, 0, 0) * Pow2(k)
    IN  Scale(fx \div Ln2Fix)

\* math.exp(x) for 0 <= x < 8
FExp(x) == Round(1, ExpFix(ToFix(x)), 0 - FixBits)

\* math.sinh(x) for 0 <= x < 8: (e^x - e^-x) / 2
FSinh(x) ==
    LET Half(ex) ==
            Round(1, ex - (IF ex > FixOne THEN DivFix(FixOne, ex) ELSE FixOne),
                  0 - FixBits - 1)
    IN  Half(ExpFix(ToFix(x)))

\* sum over k >= from of z^(2k+1)/(2k+1), given z^(2k+1)
RECURSIVE AtanhSeries(_, _, _, _)
AtanhSeries(pow, z2, k, sum) ==
    IF pow = 0 THEN sum
    ELSE CASE Computed(sum) ->
            AtanhSeries(MulFix(pow, z2), z2, k + 1, sum + pow \div (2 * k + 1))

\* ln(u * 2^k) in fixed point for a fixed-point u, 1 <= u < 2:
\* k ln 2 + 2 atanh((u - 1)/(u + 1))
LnFix(u, k) ==
    LET Series(z) == k * Ln2Fix + 2 * AtanhSeries(z, MulFix(z, z), 0, 0)
    IN  Series(DivFix(u - FixOne, u + FixOne))

\* math.log(x) for x > 0:  x = u * 2^k with 1 <= u < 2
FLog(x) ==
    RoundSigned(LnFix(x.m * Pow2(GuardBits + 1), x.e + MantissaBits - 1), 0 - FixBits)

\* log10(e) in fixed point
Log10EFix == 466320149 \div Pow2(30 - FixBits)

\* math.log10(x) for x > 0: ln(x) * log10(e)
FLog10(x) ==
    LET Scale(ln) == RoundSigned(Sgn(ln) * MulFix(Abs(ln), Log10EFix), 0 - FixBits)
    IN  Scale(LnFix(x.m * Pow2(GuardBits + 1), x.e + MantissaBits - 1))

\* ln 10 in fixed point
Ln10Fix == 1236190975 \div Pow2(29 - FixBits)

\* 10 ** x for a float x, 0 <= x < 3: e^(x ln 10)
FPow10(x) == Round(1, ExpFix(MulFix(ToFix(x), Ln10Fix)), 0 - FixBits)

\* |x|^k as a float, from the product M * 2^E of the first factors kept to
\* 30 - MantissaBits bits, and the last product whole, so that the power is
\* rounded once, like C's pow
RECURSIVE PowWide(_, _, _, _)
PowWide(x, k, M, E) ==
    IF k = 0 THEN Round(1, M, E)
    ELSE IF Computed(E) /\ k > 1 /\ BitLen(M * Abs(x.m)) > 30 - MantissaBits
    THEN PowWide(x, k - 1,
                 (M * Abs(x.m)) \div Pow2(BitLen(M * Abs(x.m)) - (30 - MantissaBits)),
                 E + x.e + BitLen(M * Abs(x.m)) - (30 - MantissaBits))
    ELSE PowWide(x, k - 1, M * Abs(x.m), E + x.e)

\* x ** k for a float x and an int k >= 0
FPowInt(x, k) ==
    LET Signed(p) == IF x.m < 0 /\ k % 2 = 1 THEN FNeg(p) ELSE p
    IN  IF x.m = 0 /\ k > 0 THEN FZero ELSE Signed(PowWide(x, k, 1, 0))

\* pi / 2 in fixed point
HalfPiFix == 843314857 \div Pow2(29 - FixBits)

\* math.cos(x) for 0 <= x < 2^10: x = q * pi/2 + t with 0 <= t < pi/2, and
\* cos t = sin(pi/2 - t)
FCos(x) ==
    LET Sin(u) == SinSeries(u, MulFix(u, u), 0, 0)
        Quadrant(q, t) ==
            RoundSigned(IF q = 0 THEN Sin(HalfPiFix - t)
                        ELSE IF q = 1 THEN 0 - Sin(t)
                        ELSE IF q = 2 THEN 0 - Sin(HalfPiFix - t)
                        ELSE Sin(t), 0 - FixBits)
        Reduce(r) == Quadrant(r \div HalfPiFix, r % HalfPiFix)
    IN  Reduce(ToFix(x) % (4 * HalfPiFix))

\* r * r <= a for fixed-point r and a, exactly: with r = rH * 2^h + rL and
\* d = 2^(2h - FixBits), compare d * r * r = 2^(2h) * W + 2^h * X + V with
\* 2^(2h) * a
SquareLe(r, a) ==
    LET Third(W, U, lo) ==
            W < a \/ (W = a /\ U % Pow2(HalfBits) = 0 /\ lo % Pow2(HalfBits) = 0)
        Second(rH, U, lo) ==
            Third(Pow2(2 * HalfBits - FixBits) * rH * rH + U \div Pow2(HalfBits),
                  U, lo)
        First(rH, rL, lo) ==
            Second(rH, Pow2(2 * HalfBits - FixBits) * 2 * rH * rL
                         + lo \div Pow2(HalfBits), lo)
        Split(rH, rL) == First(rH, rL, Pow2(2 * HalfBits - FixBits) * rL * rL)
    IN  Split(r \div Pow2(HalfBits), r % Pow2(HalfBits))

\* the largest fixed-point r with r * r <= a, bit by bit  (0 <= a < 2^10)
RECURSIVE SqrtFix(_, _, _)
SqrtFix(a, bit, r) ==
    IF bit < 0 THEN r
    ELSE IF SquareLe(r + Pow2(bit), a) THEN SqrtFix(a, bit - 1, r + Pow2(bit))
                                        ELSE SqrtFix(a, bit - 1, r)

\* sum over k >= from of (-1)^k w^(2k+1)/(2k+1), given w^(2k+1)
RECURSIVE AtanSeries(_, _, _, _)
AtanSeries(pow, w2, k, sum) ==
    IF pow = 0 THEN sum
    ELSE CASE Computed(sum) ->
            AtanSeries(MulFix(pow, w2), w2, k + 1,
                       IF k % 2 = 0 THEN sum + pow \div (2 * k + 1)
                                    ELSE sum - pow \div (2 * k + 1))

\* math.acos(x) for -1 <= x <= 1: acos|x| = 2 atan z with
\* z = sqrt((1 - |x|)/(1 + |x|)), atan z = 2 atan(z / (1 + sqrt(1 + z^2))),
\* and acos(-|x|) = pi - acos|x|
FAcos(x) ==
    LET Atan(w) == AtanSeries(w, MulFix(w, w), 0, 0)
        Halve(z) == 4 * Atan(DivFix(z, FixOne + SqrtFix(FixOne + MulFix(z, z),
                                                        FixBits, 0)))
        Positive(a) ==
            IF a = 0 THEN HalfPiFix
            ELSE Halve(SqrtFix(DivFix(FixOne - a, FixOne + a), FixBits, 0))
        Signed(acos) == IF x.m < 0 THEN 2 * HalfPiFix - acos ELSE acos
    IN  RoundSigned(Signed(Positive(ToFix(FAbs(x)))), 0 - FixBits)

\* math.acosh(x) for 1 <= x < 30: ln(x + sqrt(x^2 - 1))
FAcosh(x) ==
    LET Ln(y, k) == LnFix(y \div Pow2(k), k)
        Sum(y) == Ln(y, BitLen(y) - 1 - FixBits)
        Sqrt(s) == SqrtFix(s, (BitLen(s) + FixBits) \div 2, 0)
        Root(a) == Sum(a + Sqrt(MulFix(a, a) - FixOne))
    IN  RoundSigned(Root(ToFix(x)), 0 - FixBits)

\* math.cosh(x) for 0 <= x < 2^10: (e^x + e^-x) / 2 with e^x = 2^k * e^r,
\* r = x - k ln 2
FCosh(x) ==
    LET Sum(ex, k) ==
            Round(1, ex + (IF 2 * k > 30 THEN 0
                           ELSE (IF ex > FixOne THEN DivFix(FixOne, ex) ELSE FixOne)
                                  \div Pow2(2 * k)),
                  k - FixBits - 1)
        Scale(fx, k) == Sum(ExpSeries(FixOne, fx - k * Ln2Fix, 0, 0), k)
        Reduce(fx) == Scale(fx, fx \div Ln2Fix)
    IN  Reduce(ToFix(x))

\* the largest r with r * r <= X, bit by bit
RECURSIVE ISqrt(_, _, _)
ISqrt(X, bit, r) ==
    IF bit < 0 THEN r
    ELSE IF (r + Pow2(bit)) * (r + Pow2(bit)) <= X
         THEN ISqrt(X, bit - 1, r + Pow2(bit))
         ELSE ISqrt(X, bit - 1, r)

\* math.sqrt(x) for x > 0: the root of x.m * 2^k for a k that leaves an even
\* exponent, with a sticky bit
FSqrt(x) ==
    LET Finish(r, X, k) ==
            Round(1, 2 * r + (IF r * r = X THEN 0 ELSE 1), ((x.e - k) \div 2) - 1)
        Root(k) == Finish(ISqrt(x.m * Pow2(k), 14, 0), x.m * Pow2(k), k)
    IN  Root(IF (x.e - (MantissaBits + 2)) % 2 = 0 THEN MantissaBits + 2
                                                   ELSE MantissaBits + 3)

(***************************************************************************)

(***************************************************************************)
(* shared/eseries.py                                                       *)
(***************************************************************************)
\* E_SERIES, the mantissas in hundredths (1.2 is 120)
E_SERIES ==
    [E12 |-> <<
        100, 120, 150, 180, 220, 270, 330, 390, 470, 560, 680, 820 >>,
     E24 |-> <<
        100, 110, 120, 130, 150, 160, 180, 200, 220, 240, 270, 300,
        330, 360, 390, 430, 470, 510, 560, 620, 680, 750, 820, 910 >>,
     E96 |-> <<
        100, 102, 105, 107, 110, 113, 115, 118, 121, 124, 127, 130,
        133, 137, 140, 143, 147, 150, 154, 158, 162, 165, 169, 174,
        178, 182, 187, 191, 196, 200, 205, 210, 215, 221, 226, 232,
        237, 243, 249, 255, 261, 267, 274, 280, 287, 294, 301, 309,
        316, 324, 332, 340, 348, 357, 365, 374, 383, 392, 402, 412,
        422, 432, 442, 453, 464, 475, 487, 499, 511, 523, 536, 549,
        562, 576, 590, 604, 619, 634, 649, 665, 681, 698, 715, 732,
        750, 768, 787, 806, 825, 845, 866, 887, 909, 931, 953, 976 >>]

SeriesNames == DOMAIN E_SERIES

\* a table whose E24 row lost the values it shares with E12, each replaced
\* by its upper neighbour
SeriesValuesE24WithoutE12 ==
    [s \in SeriesNames |->
        [i \in 1..Len(E_SERIES[s]) |->
            FDec(E_SERIES[s][IF s = "E24" /\ i % 2 = 1 THEN i + 1 ELSE i], 2)]]

\* the floats of the literals of E_SERIES
SeriesValues == [s \in SeriesNames |->
                   [i \in 1..Len(E_SERIES[s]) |-> FDec(E_SERIES[s][i], 2)]]

\* decades a value of the model can lie in: MinDecade..MaxDecade
MinDecade == 0 - MaxNegDecade

\* 10 ** decade for decade < 0: the float nearest to 10^decade
Pow10Neg == [d \in MinDecade..(0 - 1) |-> FRat(1, 1, 5 ^ (0 - d), d)]

\* the float nearest to 10^d
Pow10Near == [d \in MinDecade..MaxDecade |->
                IF d >= 0 THEN Round(1, 5 ^ d, d) ELSE Pow10Neg[d]]

\* whether rounding the integer M > 0 to a float does not lower it (a float
\* with a negative exponent is M itself)
RoundsUp(M) ==
    LET AtLeast(p) == p.e < 0 \/ p.m * Pow2(p.e) >= M IN AtLeast(Round(1, M, 0))

\* whether the float nearest to 10^d is >= 10^d
Pow10NearIsUpper == [d \in MinDecade..MaxDecade |->
    IF d >= 0
    THEN RoundsUp(5 ^ d)
    ELSE RoundsUp(QuotientBits(1, 5 ^ (0 - d), RatPlaces(1, 5 ^ (0 - d))))]

\* value >= 10^d, exactly  (value > 0)
GeqPow10(value, d) ==
    FGt(value, Pow10Near[d]) \/ (value = Pow10Near[d] /\ Pow10NearIsUpper[d])

\* math.floor(math.log10(value)) for value > 0
FloorLog10(value) ==
    CHOOSE d \in MinDecade..(MaxDecade - 1) :
        GeqPow10(value, d) /\ ~GeqPow10(value, d + 1)

FTen == FInt(10)

\* _normalize(value) for value > 0: <<mantissa, decade>>
_normalize(value) ==
    LET Adjust(mantissa, decade) ==
            IF FGe(mantissa, FTen) THEN <<FDivInt(mantissa, 1, 1), decade + 1>>
                                   ELSE <<mantissa, decade>>
        Scale(decade) ==
            Adjust(IF decade >= 0 THEN FDivInt(value, decade, decade)
                                  ELSE FDiv(value, Pow10Neg[decade]), decade)
    IN  Scale(FloorLog10(value))

\* _denormalize(mantissa, decade)
_denormalize(mantissa, decade) ==
    IF decade >= 0 THEN FMulInt(mantissa, decade, decade)
                   ELSE FMul(mantissa, Pow10Neg[decade])

\* _error_pct(actual, target)
_error_pct(actual, target) == FMulInt(FDiv(FSub(actual, target), target), 2, 2)

Ok(v) == [status |-> "ok", value |-> v]

\* raise ValueError(msg)
Raise(msg) == [status |-> "error", error |-> msg]

\* the loops of find_closest_single over the candidates lo..hi: the index of
\* the best candidate after them, best being the index before them (0 for
\* none, best_error = inf); a candidate replaces the best one when its error
\* is strictly below.  The range is walked in order, first half then second
\* half, the second half starting from what the first half left; this keeps
\* the evaluation shallow.
RECURSIVE ClosestIdx(_, _, _, _)
ClosestIdx(errs, lo, hi, best) ==
    LET Second(first) ==
            CASE Computed(first) -> ClosestIdx(errs, (lo + hi) \div 2 + 1, hi, first)
    IN  IF lo > hi THEN best
        ELSE IF lo = hi
        THEN IF best = 0 \/ FLt(errs[lo], errs[best]) THEN lo ELSE best
        ELSE Second(ClosestIdx(errs, lo, (lo + hi) \div 2, best))

\* the candidates of find_closest_single in the order the loops visit them:
\* the values of the target's decade, then the first value one decade up and
\* the last value one decade down
SingleCandidates(series, decade) ==
    LET Candidates(sv, L) ==
            [i \in 1..(L + 2) |->
                _denormalize(sv[IF i <= L THEN i ELSE IF i = L + 1 THEN 1 ELSE L],
                             IF i <= L THEN decade
                             ELSE IF i = L + 1 THEN decade + 1 ELSE decade - 1)]
    IN  Candidates(SeriesValues[series], Len(E_SERIES[series]))

\* find_closest_single(target, series): (matched_value, error_pct)
find_closest_single(target, series) ==
    LET Match(best) == Ok([value |-> best, error_pct |-> _error_pct(best, target)])
        Best(cands, errs) == Match(cands[ClosestIdx(errs, 1, Len(errs), 0)])
        Search(cands) ==
            Best(cands, [i \in 1..Len(cands) |-> FAbs(_error_pct(cands[i], target))])
    IN  IF series \notin SeriesNames THEN Raise("Unknown series")
        ELSE IF FLe(target, FZero) THEN Raise("Value must be positive")
        ELSE Search(SingleCandidates(series, _normalize(target)[2]))

\* Optional values: None is the empty sequence, a value x is <<x>>
None == << >>

Some(x) == <<x>>

\* a candidate pool that begins at the decade of the target
ParallelCandidatesFromOwnDecade(series, decade) ==
    LET Candidates(sv, L) ==
            [k \in 1..(3 * L) |->
                _denormalize(sv[((k - 1) % L) + 1], decade + ((k - 1) \div L))]
    IN  Candidates(SeriesValues[series], Len(E_SERIES[series]))

\* the candidate pool of find_parallel_combo: decades decade-1 .. decade+2,
\* in the order of the list comprehension
ParallelCandidates(series, decade) ==
    LET Candidates(sv, L) ==
            [k \in 1..(4 * L) |->
                _denormalize(sv[((k - 1) % L) + 1], decade - 1 + ((k - 1) \div L))]
    IN  Candidates(SeriesValues[series], Len(E_SERIES[series]))

\* a ratio test that lets every pair pass
RatioUnlimited(v1, v2, ratio_limit) == FALSE

\* max(v1, v2) / min(v1, v2) > ratio_limit
RatioExceeded(v1, v2, ratio_limit) ==
    FGt(FDiv(FMax(v1, v2), FMin(v1, v2)), ratio_limit)

\* best_combo, best_value, best_error = None, None, inf
NoBest == [combo |-> None, value |-> None, error |-> None]

\* best_error = err; best_value = value; best_combo = (min, max)
NewBest(v1, v2, value, err) ==
    [combo |-> Some(<<FMin(v1, v2), FMax(v1, v2)>>),
     value |-> Some(value), error |-> Some(err)]

\* err < best_error (best_error starts as inf)
IsBetter(err, best) == best.combo = None \/ FLt(err, best.error[1])

\* v2_needed = (v1 * target) / (v1 - target)
HarmonicV2Needed(v1, target) == FDiv(FMul(v1, target), FSub(v1, target))

\* for v1 in candidates (harmonic mode), over the candidates lo..hi in order,
\* first half then second half, the second half starting from what the first
\* half left: the best combination after them, best being the one before
\* them.  Try is the body of the loop from the ratio test on, for the v2,
\* parallel_val and err of the iteration.
RECURSIVE HarmonicLoop(_, _, _, _, _, _, _)
HarmonicLoop(cands, lo, hi, best, target, series, ratio_limit) ==
    LET Try(v1, v2, parallel_val, err) ==
            IF RatioExceeded(v1, v2, ratio_limit) THEN best
            ELSE IF IsBetter(err, best) THEN NewBest(v1, v2, parallel_val, err)
            ELSE best
        Combine(v1, v2, parallel_val) ==
            Try(v1, v2, parallel_val, FAbs(_error_pct(parallel_val, target)))
        Pair(v1, v2) == Combine(v1, v2, FDiv(FMul(v1, v2), FAdd(v1, v2)))
        Found(v1, single) ==
            IF single.status = "error" THEN single
            ELSE Pair(v1, single.value.value)
        Closest(v1, v2_needed) ==
            IF FLe(v2_needed, FZero) THEN best
            ELSE Found(v1, find_closest_single(v2_needed, series))
        Second(first) ==
            CASE Computed(first) ->
                HarmonicLoop(cands, (lo + hi) \div 2 + 1, hi, first,
                             target, series, ratio_limit)
    IN  IF lo > hi THEN best
        ELSE IF lo = hi
        THEN IF FLe(cands[lo], target) THEN best
             ELSE Closest(cands[lo], HarmonicV2Needed(cands[lo], target))
        ELSE Second(HarmonicLoop(cands, lo, (lo + hi) \div 2, best,
                                 target, series, ratio_limit))

\* for v2 in candidates[i:] (additive mode), over the candidates lo..hi in
\* order, first half then second half
RECURSIVE AdditiveInner(_, _, _, _, _, _, _)
AdditiveInner(cands, i, lo, hi, best, target, ratio_limit) ==
    LET Try(v1, v2, combined, err) ==
            IF RatioExceeded(v1, v2, ratio_limit) THEN best
            ELSE IF IsBetter(err, best) THEN NewBest(v1, v2, combined, err)
            ELSE best
        Combine(v1, v2, combined) ==
            Try(v1, v2, combined, FAbs(_error_pct(combined, target)))
        Second(first) ==
            CASE Computed(first) ->
                AdditiveInner(cands, i, (lo + hi) \div 2 + 1, hi, first,
                              target, ratio_limit)
    IN  IF lo > hi THEN best
        ELSE IF lo = hi
        THEN Combine(cands[i], cands[lo], FAdd(cands[i], cands[lo]))
        ELSE Second(AdditiveInner(cands, i, lo, (lo + hi) \div 2, best,
                                  target, ratio_limit))

\* for i, v1 in enumerate(candidates) (additive mode), over the candidates
\* lo..hi in order, first half then second half
RECURSIVE AdditiveLoop(_, _, _, _, _, _)
AdditiveLoop(cands, lo, hi, best, target, ratio_limit) ==
    LET Second(first) ==
            CASE Computed(first) ->
                AdditiveLoop(cands, (lo + hi) \div 2 + 1, hi, first,
                             target, ratio_limit)
    IN  IF lo > hi THEN best
        ELSE IF lo = hi
        THEN AdditiveInner(cands, lo, lo, Len(cands), best, target, ratio_limit)
        ELSE Second(AdditiveLoop(cands, lo, (lo + hi) \div 2, best,
                                 target, ratio_limit))

\* the literal 1e-6 of the mode auto-detection
AutoThreshold == FDec(1, 6)

\* mode == 'auto' resolves by magnitude; anything but 'harmonic' is additive
ResolveMode(target, mode) ==
    IF mode = "auto"
    THEN IF FLt(target, AutoThreshold) THEN "additive" ELSE "harmonic"
    ELSE mode

\* find_parallel_combo searching E24 when the series is unknown
FindParallelComboDefaultingToE24(target, series, mode, ratio_limit) ==
    LET Result(best) ==
            IF best.combo # None
            THEN Ok(Some([combo |-> best.combo[1], value |-> best.value[1],
                          error_pct |-> _error_pct(best.value[1], target)]))
            ELSE Ok(None)
        Search(known, cands) ==
            Result(IF ResolveMode(target, mode) = "harmonic"
                   THEN HarmonicLoop(cands, 1, Len(cands), NoBest, target, known, ratio_limit)
                   ELSE AdditiveLoop(cands, 1, Len(cands), NoBest, target, ratio_limit))
        Known(known) ==
            IF FLe(target, FZero) THEN Raise("Value must be positive")
            ELSE Search(known, ParallelCandidates(known, _normalize(target)[2]))
    IN  Known(IF series \notin SeriesNames THEN "E24" ELSE series)

\* find_parallel_combo(target, series, mode, ratio_limit):
\* ((V1, V2), parallel_value, error_pct) or None
find_parallel_combo(target, series, mode, ratio_limit) ==
    LET Result(best) ==
            IF best.combo # None
            THEN Ok(Some([combo |-> best.combo[1], value |-> best.value[1],
                          error_pct |-> _error_pct(best.value[1], target)]))
            ELSE Ok(None)
        Search(cands) ==
            Result(IF ResolveMode(target, mode) = "harmonic"
                   THEN HarmonicLoop(cands, 1, Len(cands), NoBest, target, series, ratio_limit)
                   ELSE AdditiveLoop(cands, 1, Len(cands), NoBest, target, ratio_limit))
    IN  IF series \notin SeriesNames THEN Raise("Unknown series")
        ELSE IF FLe(target, FZero) THEN Raise("Value must be positive")
        ELSE Search(ParallelCandidates(series, _normalize(target)[2]))

\* match_component(target, series, parallel_mode, ratio_limit): ESeriesMatch
match_component(target, series, parallel_mode, ratio_limit) ==
    LET Match(single, parallel_result) ==
            IF parallel_result # None
            THEN Ok([target |-> target,
                     single_value |-> single.value,
                     single_error_pct |-> single.error_pct,
                     parallel |-> Some(parallel_result[1].combo),
                     parallel_value |-> Some(parallel_result[1].value),
                     parallel_error_pct |-> Some(parallel_result[1].error_pct)])
            ELSE Ok([target |-> target,
                     single_value |-> single.value,
                     single_error_pct |-> single.error_pct,
                     parallel |-> None, parallel_value |-> None,
                     parallel_error_pct |-> None])
        Parallel(single) ==
            IF single.status = "error" THEN single
            ELSE Match(single.value,
                       find_parallel_combo(target, series, parallel_mode,
                                           ratio_limit).value)
    IN  Parallel(find_closest_single(target, series))

(***************************************************************************)
(* shared/constants.py                                                     *)
(***************************************************************************)
\* BESSEL_G_VALUES, orders 2..9, in units of 0.0001
BESSEL_G_VALUES_E4 ==
    [n \in 2..9 |-> <<
     <<5755, 21478>>,
     <<3374, 9705, 22034>>,
     <<2334, 6725, 10815, 22404>>,
     <<1743, 5072, 8040, 11110, 22582>>,
     <<1365, 4002, 6392, 8538, 11126, 22645>>,
     <<1106, 3259, 5249, 7020, 8690, 11052, 22659>>,
     <<919, 2719, 4409, 5936, 7303, 8695, 10956, 22656>>,
     <<780, 2313, 3770, 5108, 6306, 7407, 8639, 10863, 22649>>
    >>[n - 1]]

BESSEL_G_VALUES == [n \in 2..9 |->
    [i \in 1..n |-> FDec(BESSEL_G_VALUES_E4[n][i], 4)]]

\* the ripple keys 0.1, 0.5 and 1.0 of CHEBYSHEV_G_VALUES
Ripple01 == FDec(1, 1)
Ripple05 == FDec(5, 1)
Ripple10 == FInt(1)

\* CHEBYSHEV_G_VALUES, per ripple and odd order, in units of 0.00001
CHEBYSHEV_G_VALUES_E5 ==
    (Ripple01 :> (
     3 :> <<103159, 114740, 103159>> @@
     5 :> <<114684, 137121, 197503, 137121, 114684>> @@
     7 :> <<118120, 142280, 209669, 157339, 209669, 142280, 118120>> @@
     9 :> <<119570, 144260, 213457, 161671, 220539, 161671, 213457, 144260,
   119570>>)) @@
    (Ripple05 :> (
     3 :> <<159633, 109668, 159633>> @@
     5 :> <<170582, 122961, 254088, 122961, 170582>> @@
     7 :> <<173734, 125822, 263834, 134431, 263834, 125822, 173734>> @@
     9 :> <<175049, 126902, 266783, 136730, 272396, 136730, 266783, 126902,
   175049>>)) @@
    (Ripple10 :> (
     3 :> <<202367, 99408, 202367>> @@
     5 :> <<213496, 109108, 300101, 109108, 213496>> @@
     7 :> <<216664, 111148, 309373, 117349, 309373, 111148, 216664>> @@
     9 :> <<217980, 111915, 312152, 118964, 317472, 118964, 312152, 111915,
   217980>>))

CHEBYSHEV_G_VALUES == [r \in DOMAIN CHEBYSHEV_G_VALUES_E5 |->
    [n \in DOMAIN CHEBYSHEV_G_VALUES_E5[r] |->
        [i \in 1..n |-> FDec(CHEBYSHEV_G_VALUES_E5[r][n][i], 5)]]]

(***************************************************************************)
(* bandpass/g_values.py                                                    *)
(***************************************************************************)
FTwo == FInt(2)

\* (2 * i - 1) * math.pi / (2 * n)
ButterworthAngle(i, n) == FDiv(FMul(FInt(2 * i - 1), FPi), FInt(2 * n))

\* calculate_butterworth_g_values(n)
calculate_butterworth_g_values(n) ==
    [i \in 1..n |-> FMul(FTwo, FSin(ButterworthAngle(i, n)))]

\* a lookup that hands even counts the Butterworth values instead of refusing
ChebyshevOrButterworthForEven(n, ripple_db) ==
    IF ripple_db \notin DOMAIN CHEBYSHEV_G_VALUES
    THEN Raise("Ripple not supported")
    ELSE IF n \notin DOMAIN CHEBYSHEV_G_VALUES[ripple_db]
    THEN Ok(calculate_butterworth_g_values(n))
    ELSE Ok(CHEBYSHEV_G_VALUES[ripple_db][n])

\* get_chebyshev_g_values(n, ripple_db)
get_chebyshev_g_values(n, ripple_db) ==
    IF ripple_db \notin DOMAIN CHEBYSHEV_G_VALUES
    THEN Raise("Ripple not supported")
    ELSE IF n \notin DOMAIN CHEBYSHEV_G_VALUES[ripple_db]
    THEN Raise("Chebyshev requires odd resonator count")
    ELSE Ok(CHEBYSHEV_G_VALUES[ripple_db][n])

\* get_bessel_g_values answering an order outside the table with the nearest
\* entry of the table
GetBesselGValuesNearestOrder(n) ==
    IF n \notin DOMAIN BESSEL_G_VALUES
    THEN Ok(BESSEL_G_VALUES[IF n < 2 THEN 2 ELSE 9])
    ELSE Ok(BESSEL_G_VALUES[n])

\* get_bessel_g_values(n)
get_bessel_g_values(n) ==
    IF n \notin DOMAIN BESSEL_G_VALUES
    THEN Raise("Bessel g-values only available for 2-9 resonators")
    ELSE Ok(BESSEL_G_VALUES[n])

\* get_g_values(filter_type, n, ripple_db)
get_g_values(filter_type, n, ripple_db) ==
    IF filter_type = "butterworth" THEN Ok(calculate_butterworth_g_values(n))
    ELSE IF filter_type = "chebyshev" THEN get_chebyshev_g_values(n, ripple_db)
    ELSE IF filter_type = "bessel" THEN get_bessel_g_values(n)
    ELSE Raise("Unknown filter type")

(***************************************************************************)
(* bandpass/calculations.py                                                *)
(***************************************************************************)
FOne == FInt(1)

\* calculate_coupling_coefficients(g_values, fbw)
calculate_coupling_coefficients(g_values, fbw) ==
    [i \in 1..(Len(g_values) - 1) |->
        FDiv(fbw, FSqrt(FMul(g_values[i], g_values[i + 1])))]

\* calculate_external_q(g_values, fbw): (Qe_in, Qe_out)
calculate_external_q(g_values, fbw) ==
    <<FDiv(g_values[1], fbw), FDiv(g_values[Len(g_values)], fbw)>>

\* 2 * math.pi * f
Omega(f) == FMul(FMul(FTwo, FPi), f)

\* calculate_resonator_components(f0, z0): (L, C)
calculate_resonator_components(f0, z0) ==
    <<FDiv(z0, Omega(f0)), FDiv(FOne, FMul(Omega(f0), z0))>>

\* calculate_coupling_capacitors(k_values, c_resonant)
calculate_coupling_capacitors(k_values, c_resonant) ==
    [i \in 1..Len(k_values) |-> FMul(k_values[i], c_resonant)]

\* a compensation that leaves out the coupling capacitor before the resonator
TankCompensationOfNextOnly(j, n_resonators, c_coupling) ==
    IF j < n_resonators THEN FAdd(FZero, c_coupling[j]) ELSE FZero

\* the compensation of resonator j (1-based): 0.0, += Cs[j-1], += Cs[j]
TankCompensation(j, n_resonators, c_coupling) ==
    LET first == IF j > 1 THEN FAdd(FZero, c_coupling[j - 1]) ELSE FZero
    IN  IF j < n_resonators THEN FAdd(first, c_coupling[j]) ELSE first

\* calculate_tank_capacitors(n_resonators, c_resonant, c_coupling)
calculate_tank_capacitors(n_resonators, c_resonant, c_coupling) ==
    [j \in 1..n_resonators |->
        FSub(c_resonant, TankCompensation(j, n_resonators, c_coupling))]

\* calculate_min_q(f0, bw, safety_factor)
calculate_min_q(f0, bw, safety_factor) == FMul(FDiv(f0, bw), safety_factor)

FilterTypes == {"butterworth", "chebyshev", "bessel"}

Couplings == {"top", "shunt"}

\* a validation that lets a bandwidth equal to the centre frequency through
ValidateInputsAllowingFullWidth(f0, bw, z0, n_resonators, filter_type, coupling) ==
    IF FLe(f0, FZero) THEN Some("Center frequency must be positive")
    ELSE IF FLe(bw, FZero) THEN Some("Bandwidth must be positive")
    ELSE IF FGt(bw, f0) THEN Some("Bandwidth must be less than center frequency")
    ELSE IF FLe(z0, FZero) THEN Some("Impedance must be positive")
    ELSE IF ~(2 <= n_resonators /\ n_resonators <= 9)
         THEN Some("Number of resonators must be between 2 and 9")
    ELSE IF filter_type \notin FilterTypes THEN Some("Filter type must be one of")
    ELSE IF coupling \notin Couplings THEN Some("Coupling must be top or shunt")
    ELSE None

\* a validation that treats the Shunt-C 10% limit as fatal
ValidateInputsRejectingWideShunt(f0, bw, z0, n_resonators, filter_type, coupling) ==
    IF FLe(f0, FZero) THEN Some("Center frequency must be positive")
    ELSE IF FLe(bw, FZero) THEN Some("Bandwidth must be positive")
    ELSE IF FGe(bw, f0) THEN Some("Bandwidth must be less than center frequency")
    ELSE IF FLe(z0, FZero) THEN Some("Impedance must be positive")
    ELSE IF ~(2 <= n_resonators /\ n_resonators <= 9)
         THEN Some("Number of resonators must be between 2 and 9")
    ELSE IF filter_type \notin FilterTypes THEN Some("Filter type must be one of")
    ELSE IF coupling \notin Couplings THEN Some("Coupling must be top or shunt")
    ELSE IF coupling = "shunt" /\ FGt(FDiv(bw, f0), FDec(10, 2))
         THEN Some("Coupling must be top or shunt")
    ELSE None

\* _validate_inputs: the message of the ValueError raised, or None
_validate_inputs(f0, bw, z0, n_resonators, filter_type, coupling) ==
    IF FLe(f0, FZero) THEN Some("Center frequency must be positive")
    ELSE IF FLe(bw, FZero) THEN Some("Bandwidth must be positive")
    ELSE IF FGe(bw, f0) THEN Some("Bandwidth must be less than center frequency")
    ELSE IF FLe(z0, FZero) THEN Some("Impedance must be positive")
    ELSE IF ~(2 <= n_resonators /\ n_resonators <= 9)
         THEN Some("Number of resonators must be between 2 and 9")
    ELSE IF filter_type \notin FilterTypes THEN Some("Filter type must be one of")
    ELSE IF coupling \notin Couplings THEN Some("Coupling must be top or shunt")
    ELSE None

\* the literals 0.10 and 0.40 of the warnings
FbwShuntLimit == FDec(10, 2)

FbwLumpedLimit == FDec(40, 2)

ShuntWarning == "exceeds 10% limit for Shunt-C; consider Top-C topology"

LumpedWarning == "exceeds 40%; consider transmission-line design"

\* the warnings with >= in place of > at both limits
FbwWarningsAtTheLimit(fbw, coupling) ==
    (IF coupling = "shunt" /\ FGe(fbw, FbwShuntLimit) THEN <<ShuntWarning>> ELSE << >>)
    \o (IF FGe(fbw, FbwLumpedLimit) THEN <<LumpedWarning>> ELSE << >>)

\* _get_fbw_warnings(fbw, coupling)
_get_fbw_warnings(fbw, coupling) ==
    (IF coupling = "shunt" /\ FGt(fbw, FbwShuntLimit) THEN <<ShuntWarning>> ELSE << >>)
    \o (IF FGt(fbw, FbwLumpedLimit) THEN <<LumpedWarning>> ELSE << >>)

\* the weaker filter ct < 0, which lets a tank capacitor of exactly 0 through
NegativeCapsStrictlyBelowZero(c_tank) ==
    SelectSeq([j \in 1..Len(c_tank) |-> j], LAMBDA j : FLt(c_tank[j], FZero))

\* [(i + 1, ct) for i, ct in enumerate(c_tank) if ct <= 0], the indices
NegativeCaps(c_tank) ==
    SelectSeq([j \in 1..Len(c_tank) |-> j], LAMBDA j : FLe(c_tank[j], FZero))

\* calculate_bandpass_filter(f0, bw, z0, n_resonators, filter_type, coupling,
\*                           ripple_db, q_safety); each local operator is the
\* rest of the function after the assignments of its parameters
calculate_bandpass_filter(f0, bw, z0, n_resonators, filter_type, coupling, ripple_db, q_safety) ==
    LET Build(fbw, g_values, k_values, qe, LC, c_coupling, c_tank, negative_caps) ==
            IF negative_caps # << >>
            THEN [status |-> "error",
                  error  |-> "Bandwidth too wide: tank capacitors would be negative",
                  caps   |-> negative_caps]
            ELSE Ok([f0 |-> f0,
                     f_low |-> FSub(f0, FDiv(bw, FTwo)),
                     f_high |-> FAdd(f0, FDiv(bw, FTwo)),
                     bw |-> bw,
                     fbw |-> fbw,
                     z0 |-> z0,
                     n_resonators |-> n_resonators,
                     filter_type |-> filter_type,
                     coupling |-> coupling,
                     ripple_db |-> IF filter_type = "chebyshev"
                                   THEN Some(ripple_db) ELSE None,
                     q_safety |-> q_safety,
                     g_values |-> g_values,
                     k_values |-> k_values,
                     qe_in |-> qe[1],
                     qe_out |-> qe[2],
                     L_resonant |-> LC[1],
                     C_resonant |-> LC[2],
                     c_coupling |-> c_coupling,
                     c_tank |-> c_tank,
                     q_min |-> calculate_min_q(f0, bw, q_safety),
                     warnings |-> _get_fbw_warnings(fbw, coupling)])
        Tank(fbw, g_values, k_values, qe, LC, c_coupling, c_tank) ==
            Build(fbw, g_values, k_values, qe, LC, c_coupling, c_tank,
                  NegativeCaps(c_tank))
        Coupling(fbw, g_values, k_values, qe, LC, c_coupling) ==
            Tank(fbw, g_values, k_values, qe, LC, c_coupling,
                 calculate_tank_capacitors(n_resonators, LC[2], c_coupling))
        Resonator(fbw, g_values, k_values, qe, LC) ==
            Coupling(fbw, g_values, k_values, qe, LC,
                     calculate_coupling_capacitors(k_values, LC[2]))
        Synthesize(fbw, g_values) ==
            Resonator(fbw, g_values,
                      calculate_coupling_coefficients(g_values, fbw),
                      calculate_external_q(g_values, fbw),
                      calculate_resonator_components(f0, z0))
        Checked(invalid, g) ==
            IF invalid # None THEN Raise(invalid[1])
            ELSE IF g.status = "error" THEN g
            ELSE Synthesize(FDiv(bw, f0), g.value)
    IN  Checked(_validate_inputs(f0, bw, z0, n_resonators, filter_type, coupling),
                get_g_values(filter_type, n_resonators, ripple_db))

(***************************************************************************)
(* shared/cli_aliases.py and cli/bandpass_cmd.py                           *)
(***************************************************************************)
FILTER_TYPE_ALIASES ==
    [bw |-> "butterworth", b |-> "butterworth", ch |-> "chebyshev",
     c |-> "chebyshev", bs |-> "bessel"]

COUPLING_ALIASES == [t |-> "top", s |-> "shunt"]

DEFAULT_RIPPLE_DB == Ripple05

\* resolve_filter_type(alias)
resolve_filter_type(alias) ==
    IF alias \in DOMAIN FILTER_TYPE_ALIASES THEN FILTER_TYPE_ALIASES[alias] ELSE alias

\* resolve_coupling(alias)
resolve_coupling(alias) ==
    IF alias \in DOMAIN COUPLING_ALIASES THEN COUPLING_ALIASES[alias] ELSE alias

\* a or b, for optional arguments
OrElse(a, b) == IF a # None THEN a ELSE b

\* _validate_frequencies(args): (f0, bw, f_low, f_high); the frequencies of
\* args are the values parse_frequency returned for the strings given
_validate_frequencies(a) ==
    LET has_center_bw == a.frequency # None /\ a.bandwidth # None
        has_low_high  == a.f_low # None /\ a.f_high # None
    IN  IF has_center_bw /\ has_low_high
        THEN Raise("Use (-f + -b) OR (--fl + --fh), not both")
        ELSE IF ~has_center_bw /\ ~has_low_high
        THEN Raise("Specify frequency as (-f + -b) or (--fl + --fh)")
        ELSE IF has_center_bw
        THEN LET f0 == a.frequency[1]
                 bw == a.bandwidth[1]
             IN  Ok(<<f0, bw, FSub(f0, FDiv(bw, FTwo)), FAdd(f0, FDiv(bw, FTwo))>>)
        ELSE LET f_low  == a.f_low[1]
                 f_high == a.f_high[1]
             IN  IF FGe(f_low, f_high)
                 THEN Raise("Lower frequency must be less than upper")
                 ELSE Ok(<<FSqrt(FMul(f_low, f_high)), FSub(f_high, f_low),
                           f_low, f_high>>)

\* run(args) of the bandpass command: what it printed, or the ValueError
BandpassRun(a) ==
    LET Display(freqs, res) ==
            IF res.status = "error" THEN res
            ELSE Ok([printed |-> "results",
                     result  |-> [res.value EXCEPT !.f_low = freqs[3],
                                                   !.f_high = freqs[4]],
                     stderr  |-> res.value.warnings])
        Calculate(ft, cp, freqs) ==
            IF freqs.status = "error" THEN freqs
            ELSE IF FLe(a.q_safety, FZero) THEN Raise("Q safety factor must be positive")
            ELSE IF ft = "chebyshev" /\ a.resonators % 2 = 0
            THEN Raise("Chebyshev requires odd resonator count")
            ELSE Display(freqs.value,
                         calculate_bandpass_filter(
                             freqs.value[1], freqs.value[2], a.impedance,
                             a.resonators, ft, cp,
                             IF ft = "chebyshev" THEN a.ripple ELSE DEFAULT_RIPPLE_DB,
                             a.q_safety))
        Run(filter_type, coupling) ==
            IF a.verify THEN Ok([printed |-> "Verification passed"])
            ELSE IF a.explain
            THEN IF filter_type = None THEN Raise("Filter type required for --explain")
                 ELSE Ok([printed |-> "explanation",
                          filter_type |-> resolve_filter_type(filter_type[1])])
            ELSE IF filter_type = None THEN Raise("Filter type required")
            ELSE IF coupling = None THEN Raise("Coupling topology required")
            ELSE Calculate(resolve_filter_type(filter_type[1]),
                           resolve_coupling(coupling[1]), _validate_frequencies(a))
    IN  Run(OrElse(a.filter_type, a.type_flag), OrElse(a.coupling_pos, a.coupling_flag))

(***************************************************************************)
(* shared/chebyshev_g_calculator.py                                        *)
(***************************************************************************)
CHEBYSHEV_DB_TO_NEPER_FACTOR == FDec(1737, 2)

\* raise ZeroDivisionError("float division by zero"), at a division of the
\* recurrence
ZeroDivisionError == [status |-> "error", error |-> "float division by zero"]

\* gn = sinh(ln(coth(ripple_db / 17.37)) / (2 * n)), coth from e2x, for
\* ripple_db > 0; None when e2x - 1 is 0.0 and the division of coth raises
ChebyshevGamma(n, ripple_db) ==
    LET Gamma(e2x) ==
            IF FSub(e2x, FOne) = FZero THEN None
            ELSE Some(FSinh(FDiv(FLog(FDiv(FAdd(e2x, FOne), FSub(e2x, FOne))),
                                 FInt(2 * n))))
    IN  Gamma(FExp(FMul(FTwo, FDiv(ripple_db, CHEBYSHEV_DB_TO_NEPER_FACTOR))))

\* a[i] = sin((2i - 1) * pi / (2n))
ChebyshevA(i, n) == FSin(ButterworthAngle(i, n))

\* b[i] = gn ** 2 + sin(pi * i / n) ** 2
ChebyshevB(i, n, gn) ==
    LET Squares(s) == FAdd(FMul(gn, gn), FMul(s, s))
    IN  Squares(FSin(FDiv(FMul(FPi, FInt(i)), FInt(n))))

\* the loop "for i in range(2, n + 1)" from index i on, after g[1] for i = 1;
\* g holds g[1..i-1], and g[i] divides the next step
RECURSIVE ChebyshevRecurrence(_, _, _, _)
ChebyshevRecurrence(i, n, gn, g) ==
    LET Store(gi) ==
            IF i < n /\ gi.m # 0
            THEN ChebyshevRecurrence(i + 1, n, gn, Append(g, gi))
            ELSE Append(g, gi)
    IN  Store(IF i = 1 THEN FDiv(FMul(FTwo, ChebyshevA(1, n)), gn)
              ELSE FDiv(FMul(FMul(FInt(4), ChebyshevA(i - 1, n)), ChebyshevA(i, n)),
                        FMul(ChebyshevB(i - 1, n, gn), g[i - 1])))

\* calculate_chebyshev_g_values(n, ripple_db): g[0..n], g[0] = 0.0 unused; the
\* divisions by e2x - 1, by gn and by b[i-1] * g[i-1] raise when the divisor
\* is 0.0
calculate_chebyshev_g_values(n, ripple_db) ==
    LET Indexed(g) ==
            IF Len(g) < n THEN ZeroDivisionError
            ELSE Ok([i \in 0..n |-> IF i = 0 THEN FZero ELSE g[i]])
        Values(gn) ==
            IF gn = None \/ gn[1] = FZero THEN ZeroDivisionError
            ELSE Indexed(ChebyshevRecurrence(1, n, gn[1], << >>))
    IN  Values(ChebyshevGamma(n, ripple_db))

(***************************************************************************)
(* lowpass/calculations.py and highpass/calculations.py                    *)
(***************************************************************************)
Topologies == {"pi", "t"}

\* _validate_topology(topology): the message of the ValueError, or None
_validate_topology(topology) ==
    IF topology \notin Topologies THEN Some("Topology must be 'pi' or 't'") ELSE None

\* the two lists a ladder loop builds over the positions 1..n: values[i] is
\* (cap_value, ind_value) of position i; cap_value is appended to capacitors
\* when is_cap[i], ind_value to inductors otherwise
LadderLists(n, is_cap, values) ==
    LET positions == [i \in 1..n |-> i]
        Lists(cap_pos, ind_pos) ==
            [capacitors |-> [j \in 1..Len(cap_pos) |-> values[cap_pos[j]].cap],
             inductors  |-> [j \in 1..Len(ind_pos) |-> values[ind_pos[j]].ind],
             order      |-> n]
    IN  Lists(SelectSeq(positions, LAMBDA i : is_cap[i]),
              SelectSeq(positions, LAMBDA i : ~is_cap[i]))

\* the low-pass test with the parity of the position swapped
LowpassIsCapacitorAtEven(topology, i) == (topology = "pi") = (i % 2 = 0)

\* low-pass, i in 1..n: (topology == 'pi') == (i % 2 == 1)
LowpassIsCapacitor(topology, i) == (topology = "pi") = (i % 2 = 1)

\* the high-pass test with the parity of the position swapped
HighpassIsCapacitorAtEven(topology, i) == (topology = "t") = (i % 2 = 0)

\* high-pass, i in 1..n: (topology == 't') == (i % 2 == 1)
HighpassIsCapacitor(topology, i) == (topology = "t") = (i % 2 = 1)

\* low-pass element values of prototype value g: g / (impedance * omega) and
\* g * impedance / omega
LowpassValues(g, impedance, omega) ==
    [cap |-> FDiv(g, FMul(impedance, omega)),
     ind |-> FDiv(FMul(g, impedance), omega)]

\* high-pass element values: 1.0 / (g * omega * impedance) and
\* impedance / (omega * g)
HighpassValues(g, impedance, omega) ==
    [cap |-> FDiv(FOne, FMul(FMul(g, omega), impedance)),
     ind |-> FDiv(impedance, FMul(omega, g))]

\* lowpass calculate_butterworth(cutoff_hz, impedance, num_components, topology)
lowpass_calculate_butterworth(cutoff_hz, impedance, num_components, topology) ==
    LET Ladder(n, omega) ==
            Ok(LadderLists(n, [i \in 1..n |-> LowpassIsCapacitor(topology, i)],
                           [i \in 1..n |->
                               LowpassValues(FMul(FTwo, FSin(ButterworthAngle(i, n))),
                                        impedance, omega)]))
        Validated(invalid) ==
            IF invalid # None THEN Raise(invalid[1])
            ELSE Ladder(num_components, Omega(cutoff_hz))
    IN  Validated(_validate_topology(topology))

\* lowpass calculate_chebyshev(cutoff_hz, impedance, ripple_db, num_components,
\* topology)
lowpass_calculate_chebyshev(cutoff_hz, impedance, ripple_db, num_components, topology) ==
    LET Ladder(n, omega, g) ==
            Ok(LadderLists(n, [i \in 1..n |-> LowpassIsCapacitor(topology, i)],
                           [i \in 1..n |-> LowpassValues(g[i], impedance, omega)]))
        Prototype(g) ==
            IF g.status = "error" THEN g
            ELSE Ladder(num_components, Omega(cutoff_hz), g.value)
        Validated(invalid) ==
            IF invalid # None THEN Raise(invalid[1])
            ELSE Prototype(calculate_chebyshev_g_values(num_components, ripple_db))
    IN  Validated(_validate_topology(topology))

\* lowpass calculate_bessel looking the order up before it validates the
\* topology
LowpassBesselOrderChecked(cutoff_hz, impedance, num_components, topology) ==
    LET Ladder(n, omega, g_values) ==
            Ok(LadderLists(n, [i \in 1..n |-> (topology = "pi") = ((i - 1) % 2 = 0)],
                           [i \in 1..n |-> LowpassValues(g_values[i], impedance, omega)]))
        Validated(invalid) ==
            IF num_components \notin DOMAIN BESSEL_G_VALUES
            THEN Raise("Bessel filter supports 2-9 components")
            ELSE IF invalid # None THEN Raise(invalid[1])
            ELSE Ladder(num_components, Omega(cutoff_hz),
                        BESSEL_G_VALUES[num_components])
    IN  Validated(_validate_topology(topology))

\* lowpass calculate_bessel(cutoff_hz, impedance, num_components, topology);
\* the loop index of the code is i - 1
lowpass_calculate_bessel(cutoff_hz, impedance, num_components, topology) ==
    LET Ladder(n, omega, g_values) ==
            Ok(LadderLists(n, [i \in 1..n |-> (topology = "pi") = ((i - 1) % 2 = 0)],
                           [i \in 1..n |-> LowpassValues(g_values[i], impedance, omega)]))
        Validated(invalid) ==
            IF invalid # None THEN Raise(invalid[1])
            ELSE IF num_components \notin DOMAIN BESSEL_G_VALUES
            THEN Raise("Bessel filter supports 2-9 components")
            ELSE Ladder(num_components, Omega(cutoff_hz),
                        BESSEL_G_VALUES[num_components])
    IN  Validated(_validate_topology(topology))

\* highpass calculate_butterworth(cutoff_hz, impedance, num_components, topology)
highpass_calculate_butterworth(cutoff_hz, impedance, num_components, topology) ==
    LET Ladder(n, omega) ==
            Ok(LadderLists(n, [i \in 1..n |-> HighpassIsCapacitor(topology, i)],
                           [i \in 1..n |->
                               HighpassValues(FMul(FTwo, FSin(ButterworthAngle(i, n))),
                                        impedance, omega)]))
        Validated(invalid) ==
            IF invalid # None THEN Raise(invalid[1])
            ELSE Ladder(num_components, Omega(cutoff_hz))
    IN  Validated(_validate_topology(topology))

\* highpass calculate_chebyshev(cutoff_hz, impedance, ripple_db, num_components,
\* topology)
highpass_calculate_chebyshev(cutoff_hz, impedance, ripple_db, num_components, topology) ==
    LET Ladder(n, omega, g) ==
            Ok(LadderLists(n, [i \in 1..n |-> HighpassIsCapacitor(topology, i)],
                           [i \in 1..n |-> HighpassValues(g[i], impedance, omega)]))
        Prototype(g) ==
            IF g.status = "error" THEN g
            ELSE Ladder(num_components, Omega(cutoff_hz), g.value)
        Validated(invalid) ==
            IF invalid # None THEN Raise(invalid[1])
            ELSE Prototype(calculate_chebyshev_g_values(num_components, ripple_db))
    IN  Validated(_validate_topology(topology))

\* highpass calculate_bessel applying the parity test of the 1-indexed loops
\* to its own 0-indexed loop index
HighpassBesselTestedAsOneIndexed(cutoff_hz, impedance, num_components, topology) ==
    LET Ladder(n, omega, g_values) ==
            Ok(LadderLists(n, [i \in 1..n |-> (topology = "t") = ((i - 1) % 2 = 1)],
                           [i \in 1..n |-> HighpassValues(g_values[i], impedance, omega)]))
        Validated(invalid) ==
            IF invalid # None THEN Raise(invalid[1])
            ELSE IF num_components \notin DOMAIN BESSEL_G_VALUES
            THEN Raise("Bessel filter supports 2-9 components")
            ELSE Ladder(num_components, Omega(cutoff_hz),
                        BESSEL_G_VALUES[num_components])
    IN  Validated(_validate_topology(topology))

\* highpass calculate_bessel(cutoff_hz, impedance, num_components, topology);
\* the loop index of the code is i - 1
highpass_calculate_bessel(cutoff_hz, impedance, num_components, topology) ==
    LET Ladder(n, omega, g_values) ==
            Ok(LadderLists(n, [i \in 1..n |-> (topology = "t") = ((i - 1) % 2 = 0)],
                           [i \in 1..n |-> HighpassValues(g_values[i], impedance, omega)]))
        Validated(invalid) ==
            IF invalid # None THEN Raise(invalid[1])
            ELSE IF num_components \notin DOMAIN BESSEL_G_VALUES
            THEN Raise("Bessel filter supports 2-9 components")
            ELSE Ladder(num_components, Omega(cutoff_hz),
                        BESSEL_G_VALUES[num_components])
    IN  Validated(_validate_topology(topology))

(***************************************************************************)
(* shared/transfer_functions.py                                            *)
(***************************************************************************)
\* Bessel polynomial coefficients for orders 2-9, constant term first
BESSEL_COEFFS ==
    [n \in 2..9 |->
        CASE n = 2 -> <<3, 3, 1>>
          [] n = 3 -> <<15, 15, 6, 1>>
          [] n = 4 -> <<105, 105, 45, 10, 1>>
          [] n = 5 -> <<945, 945, 420, 105, 15, 1>>
          [] n = 6 -> <<10395, 10395, 4725, 1260, 210, 21, 1>>
          [] n = 7 -> <<135135, 135135, 62370, 17325, 3150, 378, 28, 1>>
          [] n = 8 -> <<2027025, 2027025, 945945, 270270, 51975, 6930, 630, 36, 1>>
          [] n = 9 -> <<34459425, 34459425, 16216200, 4729725, 945945, 135135,
                       13860, 990, 45, 1>>]

\* Bessel -3dB normalization scale factors, in ten-thousandths
BESSEL_SCALE_E4 ==
    [n \in 2..9 |->
        CASE n = 2 -> 13617 [] n = 3 -> 17557 [] n = 4 -> 21139 [] n = 5 -> 24274
          [] n = 6 -> 27034 [] n = 7 -> 29517 [] n = 8 -> 31796 [] n = 9 -> 33917]

BESSEL_SCALE == [n \in 2..9 |-> FDec(BESSEL_SCALE_E4[n], 4)]

\* the loop of chebyshev_polynomial: t_curr = 2 * x * t_prev1 - t_prev2
RECURSIVE ChebyshevStep(_, _, _, _, _)
ChebyshevStep(i, n, x, t_prev2, t_prev1) ==
    LET Next(t_curr) ==
            CASE Computed(t_curr) -> ChebyshevStep(i + 1, n, x, t_prev1, t_curr)
    IN  IF i > n THEN t_prev1
        ELSE Next(FSub(FMul(FMul(FTwo, x), t_prev1), t_prev2))

\* chebyshev_polynomial(n, x): Tn(x) by recurrence
chebyshev_polynomial(n, x) ==
    IF n = 0 THEN FOne
    ELSE IF n = 1 THEN x
    ELSE ChebyshevStep(2, n, x, FOne, x)

MagnitudeFloorDb == FInt(0 - 120)

\* magnitude_to_db(magnitude): floored at -120 dB
magnitude_to_db(magnitude) ==
    IF FLe(magnitude, FZero) THEN MagnitudeFloorDb
    ELSE FMax(FMul(FInt(20), FLog10(magnitude)), MagnitudeFloorDb)

\* the loop of bessel_response over enumerate(coeffs), from index k (counted
\* from 0): <<real_part, imag_part>>, where (-1) ** (k // 2) is the sign
RECURSIVE BesselParts(_, _, _, _, _, _)
BesselParts(coeffs, k, w, w_power, real_part, imag_part) ==
    IF k >= Len(coeffs) THEN <<real_part, imag_part>>
    ELSE LET Term(sign) == IntTimesFloat(sign * coeffs[k + 1], w_power)
             Sums(power, re, im) ==
                 CASE Computed(<<power, re, im>>) ->
                     BesselParts(coeffs, k + 1, w, power, re, im)
             Add(term) ==
                 Sums(FMul(w_power, w),
                      IF k % 2 = 0 THEN FAdd(real_part, term) ELSE real_part,
                      IF k % 2 = 0 THEN imag_part ELSE FAdd(imag_part, term))
         IN  Add(Term(IF (k \div 2) % 2 = 0 THEN 1 ELSE -1))

\* the end of bessel_response from w on: dc_gain_squared / denom_squared,
\* clamped to 1, and at_zero when the denominator is zero
BesselMagnitude(w, order, at_zero) ==
    LET coeffs == BESSEL_COEFFS[order]
        Clamp(h_squared) == FSqrt(FMin(h_squared, FOne))
        Divide(denom_squared) ==
            IF denom_squared = FZero THEN at_zero
            ELSE Clamp(FDiv(WideProduct(1, coeffs[1], coeffs[1], 0), denom_squared))
        Parts(p) == Divide(FAdd(FPowInt(p[1], 2), FPowInt(p[2], 2)))
    IN  Parts(BesselParts(coeffs, 0, w, FOne, FZero, FZero))

\* epsilon = math.sqrt(10 ** (ripple_db / 10) - 1)   (0 <= ripple_db < 30)
RippleEpsilon(ripple_db) ==
    LET Root(d) == IF d = FZero THEN FZero ELSE FSqrt(d)
    IN  Root(FSub(FPow10(FDiv(ripple_db, FTen)), FOne))

\* 1.0 / (1.0 + x), the squared magnitude of every family
OneOverOnePlus(x) == FDiv(FOne, FAdd(FOne, x))

(***************************************************************************)
(* lowpass/transfer.py                                                     *)
(***************************************************************************)
\* butterworth_response returning h_squared, without the square root
LowpassButterworthWithoutRoot(freq_hz, cutoff_hz, order) ==
    LET ratio == FDiv(freq_hz, cutoff_hz)
    IN  Ok(OneOverOnePlus(FPowInt(ratio, 2 * order)))

\* butterworth_response(freq_hz, cutoff_hz, order)
lowpass_butterworth_response(freq_hz, cutoff_hz, order) ==
    LET ratio == FDiv(freq_hz, cutoff_hz)
    IN  Ok(FSqrt(OneOverOnePlus(FPowInt(ratio, 2 * order))))

\* chebyshev_response(freq_hz, cutoff_hz, order, ripple_db)
lowpass_chebyshev_response(freq_hz, cutoff_hz, order, ripple_db) ==
    LET Response(epsilon, tn) ==
            Ok(FSqrt(OneOverOnePlus(FMul(FPowInt(epsilon, 2), FPowInt(tn, 2)))))
    IN  Response(RippleEpsilon(ripple_db),
                 chebyshev_polynomial(order, FDiv(freq_hz, cutoff_hz)))

\* bessel_response(freq_hz, cutoff_hz, order)
lowpass_bessel_response(freq_hz, cutoff_hz, order) ==
    IF order < 2 \/ order > 9 THEN Raise("Order must be between 2 and 9")
    ELSE Ok(BesselMagnitude(FMul(FDiv(freq_hz, cutoff_hz), BESSEL_SCALE[order]),
                            order, FOne))

\* str.lower() on the family names the calls use
LowerCase == [Butterworth |-> "butterworth", CH |-> "ch", Elliptic |-> "elliptic"]

Lower(name) == IF name \in DOMAIN LowerCase THEN LowerCase[name] ELSE name

\* [magnitude_to_db(response_fn(f)) for f in freqs], given the list of what
\* response_fn returns or raises: the decibels, or the first error raised
ResponseList(responses) ==
    LET First(failed) ==
            IF failed # {}
            THEN responses[CHOOSE i \in failed : \A j \in failed : i <= j]
            ELSE Ok([i \in DOMAIN responses |-> magnitude_to_db(responses[i].value)])
    IN  First({i \in DOMAIN responses : responses[i].status = "error"})

\* frequency_response(filter_type, freqs, cutoff_hz, order, ripple_db)
lowpass_frequency_response(filter_type, freqs, cutoff_hz, order, ripple_db) ==
    LET Butterworth(f) == lowpass_butterworth_response(f, cutoff_hz, order)
        Chebyshev(f) == lowpass_chebyshev_response(f, cutoff_hz, order, ripple_db)
        Bessel(f) == lowpass_bessel_response(f, cutoff_hz, order)
        Family(name) ==
            IF name \in {"butterworth", "bw"}
            THEN ResponseList([i \in DOMAIN freqs |-> Butterworth(freqs[i])])
            ELSE IF name \in {"chebyshev", "ch"}
            THEN ResponseList([i \in DOMAIN freqs |-> Chebyshev(freqs[i])])
            ELSE IF name \in {"bessel", "bs"}
            THEN ResponseList([i \in DOMAIN freqs |-> Bessel(freqs[i])])
            ELSE Raise("Unknown filter type: " \o name)
    IN  Family(Lower(filter_type))

(***************************************************************************)
(* highpass/transfer.py                                                    *)
(***************************************************************************)
\* butterworth_response(freq_hz, cutoff_hz, order)
highpass_butterworth_response(freq_hz, cutoff_hz, order) ==
    IF freq_hz = FZero THEN Ok(FZero)
    ELSE LET ratio == FDiv(cutoff_hz, freq_hz)
         IN  Ok(FSqrt(OneOverOnePlus(FPowInt(ratio, 2 * order))))

\* a high-pass Chebyshev response that keeps the low-pass ratio f / fc
highpass_chebyshev_response_uninverted(freq_hz, cutoff_hz, order, ripple_db) ==
    LET Response(epsilon, tn) ==
            Ok(FSqrt(OneOverOnePlus(FMul(FPowInt(epsilon, 2), FPowInt(tn, 2)))))
    IN  IF freq_hz = FZero THEN Ok(FZero)
        ELSE Response(RippleEpsilon(ripple_db),
                      chebyshev_polynomial(order, FDiv(freq_hz, cutoff_hz)))

\* chebyshev_response(freq_hz, cutoff_hz, order, ripple_db)
highpass_chebyshev_response(freq_hz, cutoff_hz, order, ripple_db) ==
    LET Response(epsilon, tn) ==
            Ok(FSqrt(OneOverOnePlus(FMul(FPowInt(epsilon, 2), FPowInt(tn, 2)))))
    IN  IF freq_hz = FZero THEN Ok(FZero)
        ELSE Response(RippleEpsilon(ripple_db),
                      chebyshev_polynomial(order, FDiv(cutoff_hz, freq_hz)))

\* bessel_response(freq_hz, cutoff_hz, order)
highpass_bessel_response(freq_hz, cutoff_hz, order) ==
    IF order < 2 \/ order > 9 THEN Raise("Order must be between 2 and 9")
    ELSE IF freq_hz = FZero THEN Ok(FZero)
    ELSE Ok(BesselMagnitude(FMul(FDiv(cutoff_hz, freq_hz), BESSEL_SCALE[order]),
                            order, FZero))

\* frequency_response(filter_type, freqs, cutoff_hz, order, ripple_db)
highpass_frequency_response(filter_type, freqs, cutoff_hz, order, ripple_db) ==
    LET Butterworth(f) == highpass_butterworth_response(f, cutoff_hz, order)
        Chebyshev(f) == highpass_chebyshev_response(f, cutoff_hz, order, ripple_db)
        Bessel(f) == highpass_bessel_response(f, cutoff_hz, order)
        Family(name) ==
            IF name \in {"butterworth", "bw"}
            THEN ResponseList([i \in DOMAIN freqs |-> Butterworth(freqs[i])])
            ELSE IF name \in {"chebyshev", "ch"}
            THEN ResponseList([i \in DOMAIN freqs |-> Chebyshev(freqs[i])])
            ELSE IF name \in {"bessel", "bs"}
            THEN ResponseList([i \in DOMAIN freqs |-> Bessel(freqs[i])])
            ELSE Raise("Unknown filter type: " \o name)
    IN  Family(Lower(filter_type))

(***************************************************************************)
(* bandpass/transfer.py                                                    *)
(***************************************************************************)
\* chebyshev_polynomial(n, x): cos(n acos x) inside the band, cosh(n acosh|x|)
\* outside
bandpass_chebyshev_polynomial(n, x) ==
    IF FLe(FAbs(x), FOne) THEN FCos(FMul(FInt(n), FAcos(x)))
    ELSE FCosh(FMul(FInt(n), FAcosh(FAbs(x))))

\* _bandpass_deviation(f, f0, bw): (f^2 - f0^2) / (bw * f)
_bandpass_deviation(f, f0, bw) ==
    IF FLe(f, FZero) THEN Raise("Frequency must be positive")
    ELSE IF FLe(bw, FZero) THEN Raise("Bandwidth must be positive")
    ELSE Ok(FDiv(FSub(FMul(f, f), FMul(f0, f0)), FMul(bw, f)))

\* 1.0 / math.sqrt(1.0 + x)
OneOverRootOnePlus(x) == FDiv(FOne, FSqrt(FAdd(FOne, x)))

\* magnitude_butterworth(f, f0, bw, order)
magnitude_butterworth(f, f0, bw, order) ==
    LET Magnitude(delta) ==
            IF delta.status = "error" THEN delta
            ELSE Ok(OneOverRootOnePlus(FPowInt(delta.value, 2 * order)))
    IN  Magnitude(_bandpass_deviation(f, f0, bw))

\* magnitude_chebyshev(f, f0, bw, order, ripple_db)
magnitude_chebyshev(f, f0, bw, order, ripple_db) ==
    LET Response(eps, cn) ==
            Ok(OneOverRootOnePlus(FMul(FMul(FMul(eps, eps), cn), cn)))
        Magnitude(eps, delta) ==
            IF delta.status = "error" THEN delta
            ELSE Response(eps, bandpass_chebyshev_polynomial(order, delta.value))
    IN  Magnitude(RippleEpsilon(ripple_db), _bandpass_deviation(f, f0, bw))

\* magnitude_bessel(f, f0, bw, order): the Butterworth shape
magnitude_bessel(f, f0, bw, order) == magnitude_butterworth(f, f0, bw, order)

BandpassFloorDb == FInt(0 - 100)

\* magnitude_db with the clamp applied below 1e-6 instead of 1e-5
MagnitudeDbClampedBelowAMillionth(f, f0, bw, order, filter_type, ripple_db) ==
    LET Decibels(mag) ==
            IF mag.status = "error" THEN mag
            ELSE IF FLt(mag.value, FDec(1, 6)) THEN Ok(BandpassFloorDb)
            ELSE Ok(FMul(FInt(20), FLog10(mag.value)))
    IN  IF filter_type = "butterworth" THEN Decibels(magnitude_butterworth(f, f0, bw, order))
        ELSE IF filter_type = "chebyshev"
             THEN Decibels(magnitude_chebyshev(f, f0, bw, order, ripple_db))
        ELSE IF filter_type = "bessel" THEN Decibels(magnitude_bessel(f, f0, bw, order))
        ELSE Raise("Unknown filter type: " \o filter_type)

\* magnitude_db(f, f0, bw, order, filter_type, ripple_db): clamped to -100 dB
magnitude_db(f, f0, bw, order, filter_type, ripple_db) ==
    LET Decibels(mag) ==
            IF mag.status = "error" THEN mag
            ELSE IF FLt(mag.value, FDec(1, 5)) THEN Ok(BandpassFloorDb)
            ELSE Ok(FMul(FInt(20), FLog10(mag.value)))
    IN  IF filter_type = "butterworth" THEN Decibels(magnitude_butterworth(f, f0, bw, order))
        ELSE IF filter_type = "chebyshev"
             THEN Decibels(magnitude_chebyshev(f, f0, bw, order, ripple_db))
        ELSE IF filter_type = "bessel" THEN Decibels(magnitude_bessel(f, f0, bw, order))
        ELSE Raise("Unknown filter type: " \o filter_type)

(***************************************************************************)
(* Strings.  A str is the sequence of its characters; the two omegas are   *)
(* written "U+03A9" (capital) and "U+03C9" (small).                        *)
(***************************************************************************)
Whitespace == {" ", "\t", "\n"}

\* str.strip()
RECURSIVE Strip(_)
Strip(s) ==
    IF s = << >> THEN s
    ELSE IF Head(s) \in Whitespace THEN Strip(Tail(s))
    ELSE IF s[Len(s)] \in Whitespace THEN Strip(SubSeq(s, 1, Len(s) - 1))
    ELSE s

UpperLetters ==
    <<"A", "B", "C", "D", "E", "F", "G", "H", "I", "J", "K", "L", "M", "N", "O", "P",
      "Q", "R", "S", "T", "U", "V", "W", "X", "Y", "Z", "U+03A9">>

LowerLetters ==
    <<"a", "b", "c", "d", "e", "f", "g", "h", "i", "j", "k", "l", "m", "n", "o", "p",
      "q", "r", "s", "t", "u", "v", "w", "x", "y", "z", "U+03C9">>

\* str.lower()
StrLower(s) ==
    LET LowerChar(c) ==
            IF \E i \in DOMAIN UpperLetters : UpperLetters[i] = c
            THEN LowerLetters[CHOOSE i \in DOMAIN UpperLetters : UpperLetters[i] = c]
            ELSE c
    IN  [i \in DOMAIN s |-> LowerChar(s[i])]

\* s.endswith(suffix)
EndsWith(s, suffix) ==
    Len(s) >= Len(suffix) /\ SubSeq(s, Len(s) - Len(suffix) + 1, Len(s)) = suffix

\* s[:-len(suffix)]
DropSuffix(s, suffix) == SubSeq(s, 1, Len(s) - Len(suffix))

\* s.replace(old, new), for a non-empty old
RECURSIVE Replace(_, _, _)
Replace(s, old, new) ==
    IF Len(s) < Len(old) THEN s
    ELSE IF SubSeq(s, 1, Len(old)) = old
    THEN new \o Replace(SubSeq(s, Len(old) + 1, Len(s)), old, new)
    ELSE <<Head(s)>> \o Replace(Tail(s), old, new)

DecimalDigits == <<"0", "1", "2", "3", "4", "5", "6", "7", "8", "9">>

\* the int a string of decimal digits denotes, after the digits read into acc
RECURSIVE DecimalValue(_, _)
DecimalValue(s, acc) ==
    IF s = << >> THEN acc
    ELSE DecimalValue(Tail(s),
             10 * acc + (CHOOSE i \in DOMAIN DecimalDigits : DecimalDigits[i] = Head(s)) - 1)

\* the floats that are not finite
NonFinite == {[special |-> v] : v \in {"inf", "-inf", "nan"}}

\* float(str): None for the ValueError, else the float nearest to the decimal
\* numeral [sign] digits [. digits] [e [sign] digits], or inf, -inf or nan.
\* The numerals of the model have no digit separators and at most nine
\* significant digits.
PyFloat(str) ==
    LET IsDigits(s) == \A i \in DOMAIN s : \E d \in DOMAIN DecimalDigits : DecimalDigits[d] = s[i]
        Nearest(sign, n, d) ==
            IF n = 0 THEN Some(FZero)
            ELSE IF d >= 0 THEN Some(Round(sign, n * 5 ^ d, d))
            ELSE Some(FRat(sign, n, 5 ^ (0 - d), d))
        Exponent(sign, digits, frac_len, e) ==
            LET esign == IF e # << >> /\ Head(e) = "-" THEN -1 ELSE 1
                edigits == IF e # << >> /\ Head(e) \in {"+", "-"} THEN Tail(e) ELSE e
            IN  IF edigits = << >> \/ ~IsDigits(edigits) THEN None
                ELSE Nearest(sign, DecimalValue(digits, 0),
                             esign * DecimalValue(edigits, 0) - frac_len)
        Mantissa(sign, m, has_exp, e) ==
            LET dots == {i \in DOMAIN m : m[i] = "."}
                int_part == IF dots = {} THEN m
                            ELSE SubSeq(m, 1, (CHOOSE i \in dots : TRUE) - 1)
                frac_part == IF dots = {} THEN << >>
                             ELSE SubSeq(m, (CHOOSE i \in dots : TRUE) + 1, Len(m))
            IN  IF Cardinality(dots) > 1 \/ int_part \o frac_part = << >>
                   \/ ~IsDigits(int_part \o frac_part)
                THEN None
                ELSE IF has_exp THEN Exponent(sign, int_part \o frac_part, Len(frac_part), e)
                ELSE Nearest(sign, DecimalValue(int_part \o frac_part, 0),
                             0 - Len(frac_part))
        Number(sign, body) ==
            LET es == {i \in DOMAIN body : body[i] \in {"e", "E"}}
                first == IF es = {} THEN 0 ELSE CHOOSE i \in es : \A j \in es : i <= j
            IN  IF es = {} THEN Mantissa(sign, body, FALSE, << >>)
                ELSE Mantissa(sign, SubSeq(body, 1, first - 1), TRUE,
                              SubSeq(body, first + 1, Len(body)))
        Signed(sign, body) ==
            IF StrLower(body) \in {<<"i", "n", "f">>,
                                   <<"i", "n", "f", "i", "n", "i", "t", "y">>}
            THEN Some([special |-> IF sign < 0 THEN "-inf" ELSE "inf"])
            ELSE IF StrLower(body) = <<"n", "a", "n">> THEN Some([special |-> "nan"])
            ELSE Number(sign, body)
        Stripped(s) ==
            IF s # << >> /\ Head(s) = "-" THEN Signed(-1, Tail(s))
            ELSE IF s # << >> /\ Head(s) = "+" THEN Signed(1, Tail(s))
            ELSE Signed(1, s)
    IN  Stripped(Strip(str))

CouldNotConvert == Raise("could not convert string to float")

(***************************************************************************)
(* shared/parsing.py                                                       *)
(***************************************************************************)
\* suffixes = [('ghz', 1e9), ('mhz', 1e6), ('khz', 1e3), ('hz', 1)]
FrequencySuffixes ==
    << [suffix |-> <<"g", "h", "z">>, mult |-> Round(1, 5 ^ 9, 9)],
       [suffix |-> <<"m", "h", "z">>, mult |-> FInt(1000000)],
       [suffix |-> <<"k", "h", "z">>, mult |-> FInt(1000)],
       [suffix |-> <<"h", "z">>, mult |-> FOne] >>

\* multipliers = {'mohm': 1e6, 'kohm': 1e3, 'ohm': 1}
ImpedanceMultipliers ==
    << [suffix |-> <<"m", "o", "h", "m">>, mult |-> FInt(1000000)],
       [suffix |-> <<"k", "o", "h", "m">>, mult |-> FInt(1000)],
       [suffix |-> <<"o", "h", "m">>, mult |-> FOne] >>

\* the body both parsers share: the first suffix of the table that lower ends
\* with is cut from text and the number before it multiplied; without a
\* suffix the whole text is the number; a result that is not finite raises
\* invalid
ParseWithSuffix(text, lower, table, invalid) ==
    LET Finite(x, mult) ==
            IF x = None THEN CouldNotConvert
            ELSE IF x[1] \in NonFinite THEN Raise(invalid)
            ELSE Ok(FMul(x[1], mult))
        Cut(matching) ==
            IF matching = {} THEN Finite(PyFloat(text), FOne)
            ELSE LET first == CHOOSE i \in matching : \A j \in matching : i <= j
                 IN  Finite(PyFloat(Strip(DropSuffix(text, table[first].suffix))),
                            table[first].mult)
    IN  Cut({i \in DOMAIN table : EndsWith(lower, table[i].suffix)})

\* parse_frequency(freq_str)
parse_frequency(freq_str) ==
    ParseWithSuffix(Strip(freq_str), StrLower(Strip(freq_str)), FrequencySuffixes,
                    "Invalid frequency")

\* parse_impedance(z_str)
parse_impedance(z_str) ==
    LET ohm == <<"o", "h", "m">>
        Omegas(z) == Replace(Replace(z, <<"U+03C9">>, ohm), <<"U+03A9">>, ohm)
        Lowered(z) == Replace(StrLower(z), <<"o", "m", "e", "g", "a">>, ohm)
        Parse(z) == ParseWithSuffix(z, z, ImpedanceMultipliers, "Invalid impedance")
    IN  Parse(Lowered(Omegas(Strip(z_str))))

(***************************************************************************)
(* shared/cli_helpers.py and cli/highpass_cmd.py                           *)
(***************************************************************************)
\* validate_filter_args accepting 1 to 10 components
ValidateFilterArgsOneToTen(freq_hz, impedance, components) ==
    IF FLe(freq_hz, FZero) THEN Raise("Frequency must be positive")
    ELSE IF FLe(impedance, FZero) THEN Raise("Impedance must be positive")
    ELSE IF ~(1 <= components /\ components <= 10) THEN Raise("Components must be 2-9")
    ELSE Ok(None)

\* validate_filter_args(freq_hz, impedance, components)
validate_filter_args(freq_hz, impedance, components) ==
    IF FLe(freq_hz, FZero) THEN Raise("Frequency must be positive")
    ELSE IF FLe(impedance, FZero) THEN Raise("Impedance must be positive")
    ELSE IF ~(2 <= components /\ components <= 9) THEN Raise("Components must be 2-9")
    ELSE Ok(None)

\* the call of a high-pass calculator without its topology argument: Python
\* binds the arguments given and raises TypeError before the body runs
MissingTopology(name, given) ==
    [status |-> "error",
     error |-> name \o "() missing 1 required positional argument: 'topology'",
     call |-> given]

\* run(args) of the highpass command: what it printed, or the error raised
HighpassRun(a) ==
    LET Synthesize(ft, freq_hz, impedance) ==
            IF ft = "butterworth"
            THEN MissingTopology("calculate_butterworth",
                     [cutoff_hz |-> freq_hz, impedance |-> impedance,
                      num_components |-> a.components])
            ELSE IF ft = "chebyshev"
            THEN IF FLe(a.ripple, FZero) THEN Raise("Ripple must be positive")
                 ELSE MissingTopology("calculate_chebyshev",
                          [cutoff_hz |-> freq_hz, impedance |-> impedance,
                           num_components |-> a.components])
            ELSE MissingTopology("calculate_bessel",
                     [cutoff_hz |-> freq_hz, impedance |-> impedance,
                      num_components |-> a.components])
        Validated(ft, freq_hz, impedance, valid) ==
            IF valid.status = "error" THEN valid
            ELSE Synthesize(ft, freq_hz, impedance)
        Parsed(ft, freq_hz, impedance) ==
            IF freq_hz.status = "error" THEN freq_hz
            ELSE IF impedance.status = "error" THEN impedance
            ELSE Validated(ft, freq_hz.value, impedance.value,
                           validate_filter_args(freq_hz.value, impedance.value,
                                                a.components))
        Run(filter_type, freq_input) ==
            IF a.explain
            THEN IF filter_type = None THEN Raise("Filter type required for --explain")
                 ELSE IF resolve_filter_type(filter_type[1]) \notin FilterTypes
                 THEN Raise("KeyError")
                 ELSE Ok([printed |-> "explanation",
                          filter_type |-> resolve_filter_type(filter_type[1])])
            ELSE IF filter_type = None
            THEN Raise("Filter type required (butterworth/chebyshev/bessel)")
            ELSE IF freq_input = None THEN Raise("Frequency required")
            ELSE Parsed(resolve_filter_type(filter_type[1]),
                        parse_frequency(freq_input[1]), parse_impedance(a.impedance))
    IN  Run(OrElse(a.filter_type, a.type_flag), OrElse(a.frequency, a.freq_flag))

(***************************************************************************)
(* The calls.  A state is one call of the library: op names the function,  *)
(* args holds its arguments and result what it returned or raised.         *)
(***************************************************************************)
Pending == [status |-> "pending"]

\* the module-level tables as the import of the package leaves them
ModuleTables ==
    [BESSEL_G_VALUES |-> BESSEL_G_VALUES, CHEBYSHEV_G_VALUES |-> CHEBYSHEV_G_VALUES,
     E_SERIES |-> SeriesValues, BESSEL_COEFFS |-> BESSEL_COEFFS,
     BESSEL_SCALE |-> BESSEL_SCALE]

\* a single call of the library: the tables are as loaded, no caller holds a
\* list of an earlier call and no wizard runs
SingleCall == tables = ModuleTables /\ held = << >> /\ pc = "none" /\ asked = {}

MaxOrder == 10

\* centre frequencies, bandwidths and impedances of the band-pass calls; the
\* bandwidths include 10% and 40% of the centre frequency, the centre
\* frequency itself and the bandwidth at which k[1] = 1 for Bessel n = 3
BandpassF0 == {FInt(0 - 10240000), FZero, FInt(10240000)}

BandpassBw ==
    {FInt(hz) : hz \in {0 - 1024000, 0, 256000, 1024000, 1126400, 4096000,
                        4608000, 8192000, 10240000, 12288000}}
    \cup {FMul(FInt(10240000),
               FSqrt(FMul(BESSEL_G_VALUES[3][1], BESSEL_G_VALUES[3][2])))}

BandpassZ0 == {FInt(0 - 50), FZero, FInt(50)}

RippleInputs == {Ripple01, FDec(2, 1), Ripple05, Ripple10}

\* the arguments of the direct calls: every combination of bandwidth, order,
\* family, coupling and ripple at one valid centre frequency and impedance,
\* and the combinations of valid and invalid values of each argument
BandpassCalls ==
    [f0 : {FInt(10240000)}, bw : BandpassBw, z0 : {FInt(50)},
     n_resonators : 1..MaxOrder, filter_type : FilterTypes \cup {"elliptic"},
     coupling : Couplings \cup {"series"}, ripple_db : RippleInputs,
     q_safety : {FTwo}]
    \cup
    [f0 : BandpassF0, bw : {FZero, FInt(256000), FInt(10240000)}, z0 : BandpassZ0,
     n_resonators : {1, 2, 9, MaxOrder}, filter_type : {"butterworth", "elliptic"},
     coupling : {"top", "series"}, ripple_db : {Ripple05}, q_safety : {FTwo}]

\* the parsed command lines of the bandpass command: -n is one of 2..9 and the
\* family and coupling are names or aliases argparse accepts
BandpassCommandLines ==
    LET base == [verify |-> FALSE, explain |-> FALSE,
                 filter_type |-> Some("ch"), type_flag |-> None,
                 coupling_pos |-> Some("s"), coupling_flag |-> None,
                 frequency |-> Some(FInt(10240000)),
                 bandwidth |-> Some(FInt(1126400)),
                 f_low |-> None, f_high |-> None, impedance |-> FInt(50),
                 resonators |-> 3, ripple |-> Ripple01, q_safety |-> FTwo]
    IN  {[base EXCEPT !.filter_type = ft, !.type_flag = tf, !.coupling_pos = cp,
                      !.resonators = n, !.ripple = r] :
            ft \in {None, Some("butterworth"), Some("ch"), Some("bs")},
            tf \in {None, Some("c")},
            cp \in {None, Some("top"), Some("s")},
            n \in 2..9, r \in {Ripple01, Ripple10}}
        \cup
        {[base EXCEPT !.frequency = f, !.bandwidth = b, !.f_low = lo, !.f_high = hi,
                      !.resonators = n, !.q_safety = q, !.coupling_pos = cp[1],
                      !.coupling_flag = cp[2]] :
            f \in {None, Some(FInt(10240000))},
            b \in {None, Some(FInt(256000))},
            lo \in {None, Some(FInt(7168000))},
            hi \in {None, Some(FInt(7168000)), Some(FInt(7424000))},
            n \in {3, 4}, q \in {FZero, FTwo},
            cp \in {<<Some("s"), None>>, <<None, Some("shunt")>>}}
        \cup
        {[base EXCEPT !.verify = v, !.explain = e, !.filter_type = ft,
                      !.resonators = n] :
            v \in BOOLEAN, e \in BOOLEAN, ft \in {None, Some("c")}, n \in {2, 3}}

InitBandpass ==
    /\ \/ op = "calculate_bandpass_filter" /\ args \in BandpassCalls
       \/ op = "bandpass_cmd.run" /\ args \in BandpassCommandLines
    /\ result = Pending
    /\ SingleCall

\* a call of calculate_bandpass_filter
CallCalculateBandpassFilter ==
    /\ op = "calculate_bandpass_filter"
    /\ result = Pending
    /\ result' = calculate_bandpass_filter(args.f0, args.bw, args.z0,
                     args.n_resonators, args.filter_type, args.coupling,
                     args.ripple_db, args.q_safety)
    /\ UNCHANGED <<op, args, tables, held, pc, asked>>

\* a run of the bandpass command
CallBandpassRun ==
    /\ op = "bandpass_cmd.run"
    /\ result = Pending
    /\ result' = BandpassRun(args)
    /\ UNCHANGED <<op, args, tables, held, pc, asked>>

NextBandpass == CallCalculateBandpassFilter \/ CallBandpassRun

SpecBandpass == InitBandpass /\ [][NextBandpass]_vars

\* the arguments of the ladder calls: positive cutoff frequencies and
\* impedances, every order up to MaxOrder, and a topology that may be unknown
\* or in capitals
LadderCalls ==
    [cutoff_hz : {FInt(1000000), FInt(10240000)}, impedance : {FInt(50), FInt(75)},
     num_components : 1..MaxOrder, topology : Topologies \cup {"ladder", "PI"}]

\* the Chebyshev calls carry a ripple as well
ChebyshevLadderCalls ==
    [cutoff_hz : {FInt(1000000), FInt(10240000)}, impedance : {FInt(50), FInt(75)},
     ripple_db : RippleInputs \cup {FInt(3)},
     num_components : 1..MaxOrder, topology : Topologies \cup {"ladder", "PI"}]

\* the direct calls of the Chebyshev calculator take any order and a
\* positive ripple, down to a ten-thousandth of a decibel
InitLadder ==
    /\ \/ /\ op \in {"lowpass.calculate_butterworth", "lowpass.calculate_bessel",
                     "highpass.calculate_butterworth", "highpass.calculate_bessel"}
          /\ args \in LadderCalls
       \/ /\ op \in {"lowpass.calculate_chebyshev", "highpass.calculate_chebyshev"}
          /\ args \in ChebyshevLadderCalls
       \/ /\ op = "calculate_chebyshev_g_values"
          /\ args \in [n : 1..MaxOrder,
                        ripple_db : RippleInputs \cup {FDec(1, 4), FDec(1, 2), FInt(3)}]
    /\ result = Pending
    /\ SingleCall

CallChebyshevGValues ==
    /\ op = "calculate_chebyshev_g_values"
    /\ result = Pending
    /\ result' = calculate_chebyshev_g_values(args.n, args.ripple_db)
    /\ UNCHANGED <<op, args, tables, held, pc, asked>>

CallLowpassButterworth ==
    /\ op = "lowpass.calculate_butterworth"
    /\ result = Pending
    /\ result' = lowpass_calculate_butterworth(args.cutoff_hz, args.impedance,
                     args.num_components, args.topology)
    /\ UNCHANGED <<op, args, tables, held, pc, asked>>

CallLowpassChebyshev ==
    /\ op = "lowpass.calculate_chebyshev"
    /\ result = Pending
    /\ result' = lowpass_calculate_chebyshev(args.cutoff_hz, args.impedance,
                     args.ripple_db, args.num_components, args.topology)
    /\ UNCHANGED <<op, args, tables, held, pc, asked>>

CallLowpassBessel ==
    /\ op = "lowpass.calculate_bessel"
    /\ result = Pending
    /\ result' = lowpass_calculate_bessel(args.cutoff_hz, args.impedance,
                     args.num_components, args.topology)
    /\ UNCHANGED <<op, args, tables, held, pc, asked>>

CallHighpassButterworth ==
    /\ op = "highpass.calculate_butterworth"
    /\ result = Pending
    /\ result' = highpass_calculate_butterworth(args.cutoff_hz, args.impedance,
                     args.num_components, args.topology)
    /\ UNCHANGED <<op, args, tables, held, pc, asked>>

CallHighpassChebyshev ==
    /\ op = "highpass.calculate_chebyshev"
    /\ result = Pending
    /\ result' = highpass_calculate_chebyshev(args.cutoff_hz, args.impedance,
                     args.ripple_db, args.num_components, args.topology)
    /\ UNCHANGED <<op, args, tables, held, pc, asked>>

CallHighpassBessel ==
    /\ op = "highpass.calculate_bessel"
    /\ result = Pending
    /\ result' = highpass_calculate_bessel(args.cutoff_hz, args.impedance,
                     args.num_components, args.topology)
    /\ UNCHANGED <<op, args, tables, held, pc, asked>>

NextLadder ==
    \/ CallLowpassButterworth
    \/ CallLowpassChebyshev
    \/ CallLowpassBessel
    \/ CallHighpassButterworth
    \/ CallHighpassChebyshev
    \/ CallHighpassBessel
    \/ CallChebyshevGValues

SpecLadder == InitLadder /\ [][NextLadder]_vars

\* the evaluation frequencies of the low-pass and high-pass calls, around the
\* cutoff TransferCutoff: negative, zero, below, at and above the cutoff
TransferCutoff == FInt(1000000)

TransferFreqs ==
    {FInt(hz) : hz \in {0 - 1000000, 0, 100000, 500000, 1000000, 2000000, 10000000}}

\* the frequency lists: one frequency, or a valid one before or after another
TransferFreqLists ==
    {<<f>> : f \in TransferFreqs}
    \cup {<<FInt(500000), f>> : f \in {FZero, FInt(0 - 1000000), FInt(1000000)}}
    \cup {<<FZero, FInt(2000000)>>}

\* family names: the full names, aliases, capitals and an unknown name
TransferFamilies == {"butterworth", "bw", "Butterworth", "chebyshev", "CH",
                     "bessel", "bs", "elliptic"}

\* the band-pass evaluations: frequencies around the centre TransferF0, with
\* the band edges of the bandwidth 1024000, and bandwidths of either sign
TransferF0 == FInt(10240000)

BandpassFreqs ==
    {FInt(hz) : hz \in {0 - 10240000, 0, 8000000, 9000000, 9728000, 10240000,
                        10752000, 12000000, 13000000}}

BandpassWidths == {FInt(hz) : hz \in {0 - 1024000, 0, 256000, 1024000}}

\* linear magnitudes: negative, zero, below and above the floors, up to one
Magnitudes ==
    {FInt(-1), FZero, FDec(1, 9), FDec(1, 7), FDec(1, 6), FDec(9, 6), FDec(1, 5),
     FDec(1, 3), FDec(1, 1), FDec(5, 1), FSqrt(FDec(5, 1)), FDec(999, 3), FOne}

\* the cutoff frequencies of the calls are positive
InitTransfer ==
    /\ \/ /\ op \in {"lowpass.frequency_response", "highpass.frequency_response"}
          /\ args \in [filter_type : TransferFamilies, freqs : TransferFreqLists,
                        cutoff_hz : {TransferCutoff}, order : 1..MaxOrder,
                        ripple_db : {Ripple01, Ripple05}]
       \/ /\ op \in {"lowpass.butterworth_response", "highpass.butterworth_response"}
          /\ args \in [freq_hz : TransferFreqs,
                        cutoff_hz : {TransferCutoff, FInt(10240000)},
                        order : 1..MaxOrder]
       \/ /\ op = "bandpass.magnitude_db"
          /\ args \in [f : BandpassFreqs, f0 : {TransferF0}, bw : BandpassWidths,
                        order : 1..MaxOrder,
                        filter_type : FilterTypes \cup {"elliptic"},
                        ripple_db : {Ripple01, Ripple05}]
       \/ /\ op = "bandpass.magnitude_butterworth"
          /\ args \in [f : BandpassFreqs, f0 : {TransferF0}, bw : BandpassWidths,
                        order : 1..MaxOrder]
       \/ /\ op = "magnitude_to_db"
          /\ args \in [magnitude : Magnitudes]
    /\ result = Pending
    /\ SingleCall

CallLowpassFrequencyResponse ==
    /\ op = "lowpass.frequency_response"
    /\ result = Pending
    /\ result' = lowpass_frequency_response(args.filter_type, args.freqs,
                     args.cutoff_hz, args.order, args.ripple_db)
    /\ UNCHANGED <<op, args, tables, held, pc, asked>>

CallHighpassFrequencyResponse ==
    /\ op = "highpass.frequency_response"
    /\ result = Pending
    /\ result' = highpass_frequency_response(args.filter_type, args.freqs,
                     args.cutoff_hz, args.order, args.ripple_db)
    /\ UNCHANGED <<op, args, tables, held, pc, asked>>

CallLowpassButterworthResponse ==
    /\ op = "lowpass.butterworth_response"
    /\ result = Pending
    /\ result' = lowpass_butterworth_response(args.freq_hz, args.cutoff_hz, args.order)
    /\ UNCHANGED <<op, args, tables, held, pc, asked>>

CallHighpassButterworthResponse ==
    /\ op = "highpass.butterworth_response"
    /\ result = Pending
    /\ result' = highpass_butterworth_response(args.freq_hz, args.cutoff_hz, args.order)
    /\ UNCHANGED <<op, args, tables, held, pc, asked>>

CallMagnitudeDb ==
    /\ op = "bandpass.magnitude_db"
    /\ result = Pending
    /\ result' = magnitude_db(args.f, args.f0, args.bw, args.order,
                              args.filter_type, args.ripple_db)
    /\ UNCHANGED <<op, args, tables, held, pc, asked>>

CallMagnitudeButterworth ==
    /\ op = "bandpass.magnitude_butterworth"
    /\ result = Pending
    /\ result' = magnitude_butterworth(args.f, args.f0, args.bw, args.order)
    /\ UNCHANGED <<op, args, tables, held, pc, asked>>

CallMagnitudeToDb ==
    /\ op = "magnitude_to_db"
    /\ result = Pending
    /\ result' = Ok(magnitude_to_db(args.magnitude))
    /\ UNCHANGED <<op, args, tables, held, pc, asked>>

NextTransfer ==
    \/ CallLowpassFrequencyResponse
    \/ CallHighpassFrequencyResponse
    \/ CallLowpassButterworthResponse
    \/ CallHighpassButterworthResponse
    \/ CallMagnitudeDb
    \/ CallMagnitudeButterworth
    \/ CallMagnitudeToDb

SpecTransfer == InitTransfer /\ [][NextTransfer]_vars

\* the Bessel lookups: the table of g-values, the two ladder calculators and
\* the two responses, for every order up to MaxOrder
InitBessel ==
    /\ \/ /\ op = "get_bessel_g_values"
          /\ args \in [n : 0..MaxOrder]
       \/ /\ op \in {"lowpass.calculate_bessel", "highpass.calculate_bessel"}
          /\ args \in LadderCalls
       \/ /\ op \in {"lowpass.bessel_response", "highpass.bessel_response"}
          /\ args \in [freq_hz : TransferFreqs, cutoff_hz : {TransferCutoff},
                        order : 0..MaxOrder]
    /\ result = Pending
    /\ SingleCall

CallGetBesselGValues ==
    /\ op = "get_bessel_g_values"
    /\ result = Pending
    /\ result' = get_bessel_g_values(args.n)
    /\ UNCHANGED <<op, args, tables, held, pc, asked>>

CallLowpassBesselResponse ==
    /\ op = "lowpass.bessel_response"
    /\ result = Pending
    /\ result' = lowpass_bessel_response(args.freq_hz, args.cutoff_hz, args.order)
    /\ UNCHANGED <<op, args, tables, held, pc, asked>>

CallHighpassBesselResponse ==
    /\ op = "highpass.bessel_response"
    /\ result = Pending
    /\ result' = highpass_bessel_response(args.freq_hz, args.cutoff_hz, args.order)
    /\ UNCHANGED <<op, args, tables, held, pc, asked>>

NextBessel ==
    \/ CallGetBesselGValues
    \/ CallLowpassBessel
    \/ CallHighpassBessel
    \/ CallLowpassBesselResponse
    \/ CallHighpassBesselResponse

SpecBessel == InitBessel /\ [][NextBessel]_vars

\* the frequency strings: with and without a unit, in either case, with blanks,
\* negative, zero, not a number and not finite
FrequencyStrings ==
    {<<"1", "0", "M", "H", "z">>, <<"-", "1", "0", "0", "H", "z">>, <<"0">>,
     <<"0", "H", "z">>, <<"-", "0", ".", "5", "k", "H", "z">>,
     <<" ", "1", "4", ".", "2", " ", "M", "H", "z", " ">>, <<"1", "e", "6">>,
     <<"a", "b", "c">>, <<"i", "n", "f">>, <<"n", "a", "n">>, <<>>,
     <<"1", "G", "H", "z">>, <<"5", "m", "h", "z">>, <<"2", ".", "4", "g", "h", "z">>,
     <<"-", "i", "n", "f">>, <<"1", "e", "-", "3">>, <<"5", "0", "0", "k", "H", "z">>,
     <<"M", "H", "z">>, <<"1", ".", "5", ".", "2">>, <<"+", "7">>, <<".", "5">>,
     <<"1", "e">>, <<"1", "E", "3", "H", "z">>, <<"-", "1", "e", "6">>,
     <<"0", ".", "0", "M", "H", "z">>, <<"1", "0", " ", "M", " ", "H", "z">>}

\* the impedance strings, with the omegas and the word omega
ImpedanceStrings ==
    {<<"5", "0">>, <<"5", "0", "o", "h", "m">>, <<"-", "5", "0", "o", "h", "m">>,
     <<"0">>, <<"1", "k", "o", "h", "m">>, <<"1", "M", "o", "h", "m">>,
     <<"5", "0", "U+03A9">>, <<"5", "0", " ", "U+03C9">>, <<"1", "k", "U+03A9">>,
     <<"5", "0", "O", "M", "E", "G", "A">>, <<"o", "h", "m">>, <<"i", "n", "f">>,
     <<"n", "a", "n", " ", "o", "h", "m">>, <<"7", "5", " ", "O", "h", "m">>,
     <<"-", "0">>, <<"0", "k", "o", "h", "m">>, <<"4", ".", "7", "k", "o", "h", "m">>,
     <<"x">>, <<"-", "1", "M", "U+03A9">>}

\* the frequencies and impedances of the command lines
RunFrequencies ==
    {<<"1", "0", "M", "H", "z">>, <<"-", "1", "0", "0", "H", "z">>, <<"0">>,
     <<"a", "b", "c">>, <<"1", "e", "6">>}

RunImpedances ==
    {<<"5", "0">>, <<"-", "5", "0", "o", "h", "m">>, <<"0">>,
     <<"7", "5", " ", "O", "h", "m">>}

\* the command lines of the highpass command: every component count from 0 to
\* MaxOrder with each family, frequency and impedance, and the combinations
\* of positional arguments, flags and --explain
HighpassCommandLines ==
    [filter_type : {Some(t) : t \in {"butterworth", "ch", "bessel", "elliptic"}},
     type_flag : {None}, frequency : {Some(f) : f \in RunFrequencies},
     freq_flag : {None}, impedance : RunImpedances, components : 0..MaxOrder,
     ripple : {Ripple05, FZero}, explain : {FALSE}]
    \cup
    [filter_type : {None, Some("bs")}, type_flag : {None, Some("bw"), Some("elliptic")},
     frequency : {None, Some(<<"1", "0", "M", "H", "z">>)},
     freq_flag : {None, Some(<<"-", "1", "0", "0", "H", "z">>)},
     impedance : {<<"5", "0">>}, components : {3}, ripple : {Ripple05},
     explain : BOOLEAN]

InitCli ==
    /\ \/ /\ op = "parse_frequency"
          /\ args \in [freq_str : FrequencyStrings]
       \/ /\ op = "parse_impedance"
          /\ args \in [z_str : ImpedanceStrings]
       \/ /\ op = "validate_filter_args"
          /\ args \in [freq_hz : {FInt(0 - 10240000), FZero, FInt(10240000)},
                        impedance : {FInt(0 - 50), FZero, FInt(50)},
                        components : 0..MaxOrder]
       \/ /\ op = "highpass.run"
          /\ args \in HighpassCommandLines
    /\ result = Pending
    /\ SingleCall

CallParseFrequency ==
    /\ op = "parse_frequency"
    /\ result = Pending
    /\ result' = parse_frequency(args.freq_str)
    /\ UNCHANGED <<op, args, tables, held, pc, asked>>

CallParseImpedance ==
    /\ op = "parse_impedance"
    /\ result = Pending
    /\ result' = parse_impedance(args.z_str)
    /\ UNCHANGED <<op, args, tables, held, pc, asked>>

CallValidateFilterArgs ==
    /\ op = "validate_filter_args"
    /\ result = Pending
    /\ result' = validate_filter_args(args.freq_hz, args.impedance, args.components)
    /\ UNCHANGED <<op, args, tables, held, pc, asked>>

CallHighpassRun ==
    /\ op = "highpass.run"
    /\ result = Pending
    /\ result' = HighpassRun(args)
    /\ UNCHANGED <<op, args, tables, held, pc, asked>>

NextCli ==
    \/ CallParseFrequency
    \/ CallParseImpedance
    \/ CallValidateFilterArgs
    \/ CallHighpassRun

SpecCli == InitCli /\ [][NextCli]_vars

\* the float a decimal literal mantissa * 10^decade denotes, the mantissa
\* given in hundredths as in E_SERIES
StandardValue(hundredths, decade) ==
    IF decade >= 2 THEN Round(1, hundredths * 5 ^ (decade - 2), decade - 2)
    ELSE FDec(hundredths, 2 - decade)

\* the standard values of a series in the decades given
StandardValues(series, decades) ==
    {StandardValue(E_SERIES[series][i], d) :
        i \in 1..Len(E_SERIES[series]), d \in decades}

\* the targets of the single matches: the standard values of E96 in a
\* capacitor and a resistor decade, those of E24 in five decades, values
\* between standard values, zero and a negative value
SingleTargets ==
    StandardValues("E96", {0 - 9, 0})
    \cup StandardValues("E24", {0 - 9, 0 - 6, 0 - 1, 0, 3})
    \cup {FDec(151, 11), FDec(95, 1), FDec(1388, 12), FInt(999), FZero, FInt(0 - 47)}

\* the targets of the parallel matches
ParallelTargets ==
    {FInt(1000), FInt(1500), FInt(4700), FInt(999), FDec(47, 10), FDec(1388, 12),
     FDec(151, 11), FZero, FInt(0 - 47)}

\* the arguments of find_parallel_combo and match_component: every mode and
\* two ratio limits with E12, the defaults with E24 and an unknown series,
\* and a ratio limit below 1, which no pair of values meets
ParallelCalls ==
    [target : ParallelTargets, series : {"E12"},
     mode : {"auto", "additive", "harmonic"}, ratio_limit : {FTwo, FTen}]
    \cup
    [target : {FInt(1000), FDec(1388, 12), FZero}, series : {"E24", "E48"},
     mode : {"auto"}, ratio_limit : {FTen}]
    \cup
    [target : {FInt(1500), FDec(47, 10)}, series : {"E12"},
     mode : {"additive", "harmonic"}, ratio_limit : {FDec(5, 1)}]

InitESeries ==
    /\ \/ /\ op = "find_closest_single"
          /\ args \in [target : SingleTargets, series : SeriesNames \cup {"E48"}]
       \/ /\ op \in {"find_parallel_combo", "match_component"}
          /\ args \in ParallelCalls
    /\ result = Pending
    /\ SingleCall

CallFindClosestSingle ==
    /\ op = "find_closest_single"
    /\ result = Pending
    /\ result' = find_closest_single(args.target, args.series)
    /\ UNCHANGED <<op, args, tables, held, pc, asked>>

CallFindParallelCombo ==
    /\ op = "find_parallel_combo"
    /\ result = Pending
    /\ result' = find_parallel_combo(args.target, args.series, args.mode,
                                     args.ratio_limit)
    /\ UNCHANGED <<op, args, tables, held, pc, asked>>

CallMatchComponent ==
    /\ op = "match_component"
    /\ result = Pending
    /\ result' = match_component(args.target, args.series, args.mode,
                                 args.ratio_limit)
    /\ UNCHANGED <<op, args, tables, held, pc, asked>>

NextESeries == CallFindClosestSingle \/ CallFindParallelCombo \/ CallMatchComponent

SpecESeries == InitESeries /\ [][NextESeries]_vars

(***************************************************************************)
(* Properties of calculate_bandpass_filter and of the bandpass command     *)
(***************************************************************************)
\* a direct call has returned or raised
BandpassCalled == op = "calculate_bandpass_filter" /\ result # Pending

\* none of the seven conditions of input validation holds for the arguments
ValidBandpassArgs ==
    /\ FGt(args.f0, FZero)
    /\ FGt(args.bw, FZero)
    /\ FLt(args.bw, args.f0)
    /\ FGt(args.z0, FZero)
    /\ args.n_resonators \in 2..9
    /\ args.filter_type \in {"butterworth", "chebyshev", "bessel"}
    /\ args.coupling \in {"top", "shunt"}

ValidationMessages ==
    {"Center frequency must be positive", "Bandwidth must be positive",
     "Bandwidth must be less than center frequency", "Impedance must be positive",
     "Number of resonators must be between 2 and 9", "Filter type must be one of",
     "Coupling must be top or shunt"}

BandwidthTooWide == "Bandwidth too wide: tank capacitors would be negative"

\* the prototype values exist for the family, order and ripple of the call
PrototypeAvailable ==
    get_g_values(args.filter_type, args.n_resonators, args.ripple_db).status = "ok"

\* Cp[1..n] of the call, from the formulas Cs[i] = k[i] * C and
\* Cp[j] = C - Cs[j-1] - Cs[j]
ExpectedTank ==
    LET g  == get_g_values(args.filter_type, args.n_resonators, args.ripple_db).value
        C  == calculate_resonator_components(args.f0, args.z0)[2]
        Cs == calculate_coupling_capacitors(
                  calculate_coupling_coefficients(g, FDiv(args.bw, args.f0)), C)
    IN  calculate_tank_capacitors(args.n_resonators, C, Cs)

\* the resonators whose tank capacitor is zero or negative, in ascending order
ExpectedOffenders ==
    SelectSeq([j \in 1..args.n_resonators |-> j],
              LAMBDA j : ~FGt(ExpectedTank[j], FZero))

\* C1: calculate_bandpass_filter returns a result only if every tank capacitor
\* Cp[1..n] is strictly positive; if some Cp[j] <= 0, zero included, it raises
\* the 'Bandwidth too wide' error naming exactly the resonators j with
\* Cp[j] <= 0 and returns nothing
C1_TankCapacitorsStrictlyPositive ==
    BandpassCalled =>
        /\ result.status = "ok" =>
              /\ Len(result.value.c_tank) = args.n_resonators
              /\ \A j \in 1..args.n_resonators : FGt(result.value.c_tank[j], FZero)
        /\ (ValidBandpassArgs /\ PrototypeAvailable /\ ExpectedOffenders # << >>) =>
              /\ result.status = "error"
              /\ result.error = BandwidthTooWide
              /\ result.caps = ExpectedOffenders
              /\ "value" \notin DOMAIN result
        /\ (result.status = "error" /\ result.error = BandwidthTooWide) =>
              ExpectedOffenders # << >>

\* the design-range error was raised for a tank capacitor of exactly zero
C1_ZeroTankCapacitorRejected ==
    /\ BandpassCalled
    /\ result.status = "error"
    /\ result.error = BandwidthTooWide
    /\ \E j \in 1..args.n_resonators :
          ExpectedTank[j] = FZero /\ \E i \in 1..Len(result.caps) : result.caps[i] = j

\* C2: calculate_bandpass_filter raises a validation error and returns nothing
\* exactly when f0 <= 0, bw <= 0, bw >= f0, z0 <= 0, n_resonators outside
\* 2..9, an unknown filter_type or an unknown coupling; otherwise validation
\* raises nothing
C2_ValidationRejectsExactlyInvalidInputs ==
    BandpassCalled =>
        /\ ~ValidBandpassArgs <=>
              (result.status = "error" /\ result.error \in ValidationMessages)
        /\ result.status = "error" => "value" \notin DOMAIN result

\* a bandwidth equal to the centre frequency was rejected
C2_FullWidthRejected ==
    /\ BandpassCalled
    /\ FGt(args.f0, FZero)
    /\ args.bw = args.f0
    /\ result.status = "error"
    /\ result.error = "Bandwidth must be less than center frequency"

\* the family a command line names, by position or by flag, alias resolved
CommandLineFamily ==
    LET given == IF args.filter_type # None THEN args.filter_type ELSE args.type_flag
    IN  IF given = None THEN "none"
        ELSE IF given[1] \in {"ch", "c", "chebyshev"} THEN "chebyshev"
        ELSE IF given[1] \in {"bw", "b", "butterworth"} THEN "butterworth"
        ELSE IF given[1] \in {"bs", "bessel"} THEN "bessel"
        ELSE given[1]

\* a command line that asks for a synthesis: not --verify, not --explain
SynthesisRequested ==
    op = "bandpass_cmd.run" /\ result # Pending /\ ~args.verify /\ ~args.explain

\* C5: a Chebyshev band-pass request with 2, 4, 6 or 8 resonators is rejected
\* with an error and no result, in a direct call and through the bandpass
\* command; the odd counts 3, 5, 7, 9 with ripple 0.1, 0.5 or 1.0 dB are
\* accepted, so that only the design-range check can still refuse them
C5_ChebyshevEvenCountRejected ==
    /\ (BandpassCalled /\ args.filter_type = "chebyshev"
                       /\ args.n_resonators \in {2, 4, 6, 8}) =>
          /\ result.status = "error"
          /\ "value" \notin DOMAIN result
    /\ (SynthesisRequested /\ CommandLineFamily = "chebyshev"
                           /\ args.resonators \in {2, 4, 6, 8}) =>
          /\ result.status = "error"
          /\ "value" \notin DOMAIN result
    /\ (BandpassCalled /\ ValidBandpassArgs /\ args.filter_type = "chebyshev"
                       /\ args.n_resonators \in {3, 5, 7, 9}
                       /\ args.ripple_db \in {FDec(1, 1), FDec(5, 1), FDec(10, 1)}) =>
          \/ result.status = "ok"
          \/ result.status = "error" /\ result.error = BandwidthTooWide
    /\ (BandpassCalled /\ ValidBandpassArgs /\ args.filter_type = "chebyshev"
                       /\ args.n_resonators \in {3, 5, 7, 9}
                       /\ args.ripple_db \in {FDec(1, 1), FDec(5, 1), FDec(10, 1)}
                       /\ ExpectedOffenders = << >>) =>
          result.status = "ok"
    /\ (SynthesisRequested /\ CommandLineFamily = "chebyshev"
                           /\ args.resonators \in {3, 5, 7, 9}
                           /\ result.status = "error") =>
          result.error \in {BandwidthTooWide, "Coupling topology required",
                            "Q safety factor must be positive",
                            "Use (-f + -b) OR (--fl + --fh), not both",
                            "Specify frequency as (-f + -b) or (--fl + --fh)",
                            "Lower frequency must be less than upper"}

\* a direct Chebyshev call with four resonators and valid arguments was refused
C5_EvenChebyshevCallRefused ==
    /\ BandpassCalled
    /\ ValidBandpassArgs
    /\ args.filter_type = "chebyshev"
    /\ args.n_resonators = 4
    /\ args.ripple_db = FDec(5, 1)
    /\ result.status = "error"

\* C9: the warnings of a successful band-pass result hold the Shunt-C warning
\* iff coupling is 'shunt' and fbw = bw/f0 > 0.10, the transmission-line
\* warning iff fbw > 0.40 whatever the coupling, and nothing else; warnings
\* never keep the result from being returned
C9_WarningsExactlyAboveTheLimits ==
    BandpassCalled =>
        /\ result.status = "ok" =>
              LET warnings == result.value.warnings
                  fbw      == FDiv(args.bw, args.f0)
                  given    == {warnings[i] : i \in 1..Len(warnings)}
              IN  /\ result.value.fbw = fbw
                  /\ ShuntWarning \in given
                        <=> (args.coupling = "shunt" /\ FGt(fbw, FDec(10, 2)))
                  /\ LumpedWarning \in given <=> FGt(fbw, FDec(40, 2))
                  /\ given \subseteq {ShuntWarning, LumpedWarning}
                  /\ Len(warnings) = Cardinality(given)
        /\ (ValidBandpassArgs /\ PrototypeAvailable /\ ExpectedOffenders = << >>) =>
              result.status = "ok"

\* a Shunt-C result at a fractional bandwidth of exactly 0.10 carries no warning
C9_ShuntAtTheLimitUnwarned ==
    /\ BandpassCalled
    /\ result.status = "ok"
    /\ args.coupling = "shunt"
    /\ result.value.fbw = FDec(10, 2)
    /\ result.value.warnings = << >>

\* the same call with the other coupling
OtherCoupling ==
    calculate_bandpass_filter(args.f0, args.bw, args.z0, args.n_resonators,
        args.filter_type, IF args.coupling = "top" THEN "shunt" ELSE "top",
        args.ripple_db, args.q_safety)

\* C10: with the same f0, bw, z0, resonator count, family, ripple and Q safety
\* factor, coupling 'top' and coupling 'shunt' both fail or both succeed, and
\* then with the same n-1 coupling coefficients, the same n-1 coupling
\* capacitors Cs[i] = k[i] * C, the same n tank capacitors, the same resonant
\* L and C and the same Q values; only coupling and warnings may differ
C10_TopAndShuntShareComponentValues ==
    (BandpassCalled /\ args.coupling \in {"top", "shunt"}) =>
        /\ result.status = OtherCoupling.status
        /\ result.status = "error" => result = OtherCoupling
        /\ result.status = "ok" =>
              /\ [result.value EXCEPT !.coupling = "", !.warnings = << >>]
                    = [OtherCoupling.value EXCEPT !.coupling = "", !.warnings = << >>]
              /\ Len(result.value.k_values) = args.n_resonators - 1
              /\ Len(result.value.c_coupling) = args.n_resonators - 1
              /\ Len(result.value.c_tank) = args.n_resonators
              /\ \A i \in 1..(args.n_resonators - 1) :
                    result.value.c_coupling[i]
                        = FMul(result.value.k_values[i], result.value.C_resonant)

\* a Shunt-C result whose warnings differ from those of the Top-C result
C10_ShuntResultDiffersInWarnings ==
    /\ BandpassCalled
    /\ args.coupling = "shunt"
    /\ result.status = "ok"
    /\ OtherCoupling.status = "ok"
    /\ result.value.warnings # OtherCoupling.value.warnings

(***************************************************************************)
(* Properties of the low-pass and high-pass ladders                        *)
(***************************************************************************)
\* the prototype value g[i] of the family the ladder call synthesizes
LadderPrototype(i) ==
    IF op \in {"lowpass.calculate_butterworth", "highpass.calculate_butterworth"}
    THEN FMul(FTwo, FSin(ButterworthAngle(i, args.num_components)))
    ELSE IF op \in {"lowpass.calculate_chebyshev", "highpass.calculate_chebyshev"}
    THEN calculate_chebyshev_g_values(args.num_components, args.ripple_db).value[i]
    ELSE BESSEL_G_VALUES[args.num_components][i]

\* a ladder call of one of the three families with an order in 2..9 and a
\* known topology has returned or raised
LadderCalled(family_ops) ==
    /\ op \in family_ops
    /\ result # Pending
    /\ args.num_components \in 2..9
    /\ args.topology \in {"pi", "t"}

\* odd holds the values odd_values[i] of the odd positions i and even the
\* values even_values[i] of the even positions, each in ascending position
LadderLaidOut(odd, even, odd_values, even_values) ==
    LET n == args.num_components
    IN  /\ Len(odd) = (n + 1) \div 2
        /\ Len(even) = n \div 2
        /\ Len(odd) + Len(even) = n
        /\ \A j \in 1..Len(odd) : odd[j] = odd_values[2 * j - 1]
        /\ \A j \in 1..Len(even) : even[j] = even_values[2 * j]

\* C3: low-pass, any family, order n in 2..9: with 'pi' position i is a
\* capacitor iff i is odd, with 't' an inductor iff i is odd; so pi gives
\* ceil(n/2) capacitors and floor(n/2) inductors, t the reverse, each list in
\* ascending position, and the two lists hold n elements together
C3_LowpassOddPositionsCapacitorsInPi ==
    LadderCalled({"lowpass.calculate_butterworth", "lowpass.calculate_chebyshev",
                  "lowpass.calculate_bessel"}) =>
        /\ result.status = "ok"
        /\ result.value.order = args.num_components
        /\ LET values == [i \in 1..args.num_components |->
                             LowpassValues(LadderPrototype(i), args.impedance,
                                 Omega(args.cutoff_hz))]
               caps   == [i \in 1..args.num_components |-> values[i].cap]
               inds   == [i \in 1..args.num_components |-> values[i].ind]
           IN  IF args.topology = "pi"
               THEN LadderLaidOut(result.value.capacitors, result.value.inductors,
                                  caps, inds)
               ELSE LadderLaidOut(result.value.inductors, result.value.capacitors,
                                  inds, caps)

\* a low-pass Bessel T ladder of five elements: three inductors, two capacitors
C3_LowpassBesselTOfFive ==
    /\ LadderCalled({"lowpass.calculate_bessel"})
    /\ args.topology = "t"
    /\ args.num_components = 5
    /\ result.status = "ok"
    /\ Len(result.value.inductors) = 3
    /\ Len(result.value.capacitors) = 2

SingleMatched ==
    /\ op = "find_closest_single"
    /\ result # Pending
    /\ args.series \in {"E12", "E24", "E96"}
    /\ FGt(args.target, FZero)

\* the decades in which the standard values are compared with a target
ComparedDecades == (MinDecade + 1)..(MaxDecade - 1)

\* C6: for every target > 0 and every series, find_closest_single returns a
\* standard value (a series mantissa times a power of ten) whose absolute
\* percent error is minimal over the standard values of the series in all
\* decades, with the signed percent error of that value; a target that is
\* itself a standard value is returned unchanged with error exactly 0
C6_ClosestSingleMinimalAndExact ==
    SingleMatched =>
        /\ result.status = "ok"
        /\ result.value.error_pct = _error_pct(result.value.value, args.target)
        /\ \A i \in 1..Len(E_SERIES[args.series]), d \in ComparedDecades :
              LET standard == StandardValue(E_SERIES[args.series][i], d)
              IN  /\ FLe(FAbs(result.value.error_pct),
                         FAbs(_error_pct(standard, args.target)))
                  /\ args.target = standard =>
                        /\ result.value.value = args.target
                        /\ result.value.error_pct = FZero

\* C7: whenever match_component reports a parallel combination, the absolute
\* parallel_error_pct is <= the absolute single_error_pct
C7_ParallelNeverWorseThanSingle ==
    (op = "match_component" /\ result # Pending /\ result.status = "ok"
        /\ result.value.parallel # None) =>
        FLe(FAbs(result.value.parallel_error_pct[1]),
            FAbs(result.value.single_error_pct))

\* the absolute single-match error of the target of the call for a series:
\* the one returned, or the one a call with the other series returns
SingleError(series) ==
    IF series = args.series THEN FAbs(result.value.error_pct)
    ELSE FAbs(find_closest_single(args.target, series).value.error_pct)

\* C8 as stated: for any target > 0 the absolute single-match error for E96
\* is <= the one for E24, which is <= the one for E12
C8_E96BelowE24BelowE12 ==
    SingleMatched =>
        /\ FLe(SingleError("E96"), SingleError("E24"))
        /\ FLe(SingleError("E24"), SingleError("E12"))

\* C8: for any target > 0 the absolute single-match error for E24 is <= the
\* one for E12, whose values E24 contains; E96 does not contain E24
C8_E24BelowE12 ==
    SingleMatched => FLe(SingleError("E24"), SingleError("E12"))

\* an E24 match strictly closer than the E12 match of the same target
C8_E24StrictlyCloser ==
    /\ SingleMatched
    /\ args.series = "E24"
    /\ result.status = "ok"
    /\ FLt(SingleError("E24"), SingleError("E12"))

(***************************************************************************)
(* Properties of the prototype g-values                                    *)
(***************************************************************************)
\* C11: for every order n in 2..9, calculate_butterworth_g_values(n) returns
\* exactly n values g[1..n] = 2*sin((2i-1)*pi/(2n)), all strictly positive,
\* and the sequence is palindromic: g[i] = g[n+1-i] for every i
C11_ButterworthPalindromic ==
    (BandpassCalled /\ args.filter_type = "butterworth" /\ result.status = "ok") =>
        LET n == args.n_resonators
            g == result.value.g_values
        IN  /\ n \in 2..9
            /\ Len(g) = n
            /\ \A i \in 1..n :
                  /\ g[i] = FMul(FInt(2), FSin(FDiv(FMul(FInt(2 * i - 1), FPi),
                                                   FInt(2 * n))))
                  /\ FGt(g[i], FZero)
                  /\ g[i] = g[n + 1 - i]

\* C12: for every order n in 2..9 and every ripple > 0 dB,
\* calculate_chebyshev_g_values(n, ripple) returns n+1 entries where entry 0
\* is the unused 0.0, g[1] = 2*a[1]/gamma and
\* g[i] = 4*a[i-1]*a[i]/(b[i-1]*g[i-1]) for i = 2..n, and every g[1..n] is
\* strictly positive, for even orders and ripples outside the table too
C12_ChebyshevRecurrencePositive ==
    (op = "calculate_chebyshev_g_values" /\ result # Pending
        /\ args.n \in 2..9 /\ FGt(args.ripple_db, FZero)) =>
        /\ result.status = "ok"
        /\ LET n     == args.n
               g     == result.value
               gamma == ChebyshevGamma(n, args.ripple_db)[1]
               a(i)  == FSin(FDiv(FMul(FInt(2 * i - 1), FPi), FInt(2 * n)))
               s(i)  == FSin(FDiv(FMul(FPi, FInt(i)), FInt(n)))
               b(i)  == FAdd(FMul(gamma, gamma), FMul(s(i), s(i)))
           IN  /\ DOMAIN g = 0..n
               /\ g[0] = FZero
               /\ g[1] = FDiv(FMul(FInt(2), a(1)), gamma)
               /\ \A i \in 2..n :
                     g[i] = FDiv(FMul(FMul(FInt(4), a(i - 1)), a(i)),
                                 FMul(b(i - 1), g[i - 1]))
               /\ \A i \in 1..n : FGt(g[i], FZero)

(***************************************************************************)
(* Properties of the magnitude evaluation                                  *)
(***************************************************************************)
\* a call of one of family_ops has returned or raised
Evaluated(family_ops) == op \in family_ops /\ result # Pending

KnownFamily(name) == Lower(name) \in {"butterworth", "bw", "chebyshev", "ch", "bessel", "bs"}

\* C13: magnitude evaluation raises whenever the evaluation frequency is <= 0
\* or the bandwidth is <= 0 and whenever the family is unknown, in the
\* low-pass, the high-pass and the band-pass evaluator
C13_EvaluationRejectsBadInputs ==
    /\ Evaluated({"lowpass.frequency_response", "highpass.frequency_response"}) =>
          (((\E i \in DOMAIN args.freqs : FLe(args.freqs[i], FZero))
               \/ ~KnownFamily(args.filter_type))
             => result.status = "error")
    /\ Evaluated({"bandpass.magnitude_db"}) =>
          ((FLe(args.f, FZero) \/ FLe(args.bw, FZero)
               \/ args.filter_type \notin FilterTypes)
             => result.status = "error")
    /\ Evaluated({"bandpass.magnitude_butterworth"}) =>
          ((FLe(args.f, FZero) \/ FLe(args.bw, FZero)) => result.status = "error")

\* the linear magnitude the band-pass call evaluates
LinearMagnitude ==
    IF args.filter_type = "chebyshev"
    THEN magnitude_chebyshev(args.f, args.f0, args.bw, args.order, args.ripple_db)
    ELSE magnitude_butterworth(args.f, args.f0, args.bw, args.order)

InUnitInterval(magnitude) == FGe(magnitude, FZero) /\ FLe(magnitude, FOne)

\* C14: the band-pass magnitude_db returns exactly -100.0 whenever the linear
\* magnitude is below 1e-5 and never less than -100; magnitude_to_db returns
\* exactly -120.0 for a magnitude <= 0 and never less than -120, also in the
\* lists of the low-pass and high-pass frequency_response; neither returns
\* more than 0 dB for a magnitude in [0, 1]
C14_DecibelFloorsExact ==
    /\ (Evaluated({"bandpass.magnitude_db"}) /\ result.status = "ok") =>
          /\ FLt(LinearMagnitude.value, FDec(1, 5)) => result.value = FInt(0 - 100)
          /\ FGe(result.value, FInt(0 - 100))
          /\ InUnitInterval(LinearMagnitude.value) => FLe(result.value, FZero)
    /\ Evaluated({"magnitude_to_db"}) =>
          /\ FLe(args.magnitude, FZero) => result.value = FInt(0 - 120)
          /\ FGe(result.value, FInt(0 - 120))
          /\ InUnitInterval(args.magnitude) => FLe(result.value, FZero)
    /\ (Evaluated({"lowpass.frequency_response", "highpass.frequency_response"})
          /\ result.status = "ok") =>
          \A i \in DOMAIN result.value :
              FGe(result.value[i], FInt(0 - 120)) /\ FLe(result.value[i], FZero)

\* a band-pass evaluation far outside the band, clamped to -100 dB
C14_StopbandClamped ==
    /\ Evaluated({"bandpass.magnitude_db"})
    /\ result = Ok(FInt(0 - 100))
    /\ FGt(LinearMagnitude.value, FZero)
    /\ FLt(LinearMagnitude.value, FDec(1, 5))

\* the magnitude whose square is 1/2, and its decibels
RootHalf == FSqrt(FDiv(FOne, FTwo))

\* within 0.1 dB of -3.01 dB
AboutMinusThreeDb(db) == FGe(db, FNeg(FDec(311, 2))) /\ FLe(db, FNeg(FDec(291, 2)))

\* C15: for every order n in 2..9 the Butterworth low-pass and high-pass
\* magnitude at the cutoff is the root of exactly 1/2, about -3.01 dB,
\* whatever n; the Butterworth band-pass magnitude at f0 is exactly 1, 0 dB,
\* for any bandwidth > 0
C15_ButterworthAtCutoffAndCentre ==
    /\ (Evaluated({"lowpass.butterworth_response", "highpass.butterworth_response"})
          /\ args.order \in 2..9 /\ args.freq_hz = args.cutoff_hz) =>
          /\ result = Ok(RootHalf)
          /\ AboutMinusThreeDb(magnitude_to_db(result.value))
    /\ (Evaluated({"lowpass.frequency_response", "highpass.frequency_response"})
          /\ args.order \in 2..9 /\ Lower(args.filter_type) \in {"butterworth", "bw"}) =>
          \A i \in DOMAIN args.freqs :
              args.freqs[i] = args.cutoff_hz =>
                  /\ result.value[i] = magnitude_to_db(RootHalf)
                  /\ AboutMinusThreeDb(result.value[i])
    /\ (Evaluated({"bandpass.magnitude_butterworth"}) /\ args.order \in 2..9
          /\ args.f = args.f0 /\ FGt(args.bw, FZero)) =>
          result = Ok(FOne)
    /\ (Evaluated({"bandpass.magnitude_db"}) /\ args.order \in 2..9
          /\ args.filter_type = "butterworth"
          /\ args.f = args.f0 /\ FGt(args.bw, FZero)) =>
          result = Ok(FZero)

\* the low-pass Butterworth response of order 9 at its cutoff
C15_NinthOrderAtCutoff ==
    /\ Evaluated({"lowpass.butterworth_response"})
    /\ args.order = 9
    /\ args.freq_hz = args.cutoff_hz
    /\ result = Ok(RootHalf)

(***************************************************************************)
(* Properties of the Bessel lookups                                        *)
(***************************************************************************)
\* C17: every Bessel lookup raises for an order outside 2..9, and for an order
\* n in 2..9 uses a table entry of exactly n g-values, or n + 1 polynomial
\* coefficients in the responses
C17_BesselLookupsBounded ==
    /\ Evaluated({"get_bessel_g_values"}) =>
          IF args.n \in 2..9
          THEN result.status = "ok" /\ Len(result.value) = args.n
          ELSE result.status = "error"
    /\ Evaluated({"lowpass.calculate_bessel", "highpass.calculate_bessel"}) =>
          /\ args.num_components \notin 2..9 => result.status = "error"
          /\ result.status = "ok" =>
                /\ Len(BESSEL_G_VALUES[args.num_components]) = args.num_components
                /\ Len(result.value.capacitors) + Len(result.value.inductors)
                      = args.num_components
          /\ (args.num_components \in 2..9 /\ args.topology \in Topologies) =>
                result.status = "ok"
    /\ Evaluated({"lowpass.bessel_response", "highpass.bessel_response"}) =>
          IF args.order \in 2..9
          THEN result.status = "ok" /\ Len(BESSEL_COEFFS[args.order]) = args.order + 1
          ELSE result = Raise("Order must be between 2 and 9")

\* the table lookup refused for order 10
C17_TenthOrderRefused ==
    /\ Evaluated({"get_bessel_g_values"})
    /\ args.n = 10
    /\ result.status = "error"

(***************************************************************************)
(* Properties of the topology validation                                   *)
(***************************************************************************)
LadderOps ==
    {"lowpass.calculate_butterworth", "lowpass.calculate_chebyshev",
     "lowpass.calculate_bessel", "highpass.calculate_butterworth",
     "highpass.calculate_chebyshev", "highpass.calculate_bessel"}

\* C18: every low-pass and high-pass calculate_butterworth, calculate_chebyshev
\* and calculate_bessel call whose topology is neither 'pi' nor 't' raises the
\* topology error and returns no component, also when the Bessel order is out
\* of range
C18_TopologyValidatedFirst ==
    (Evaluated(LadderOps) /\ args.topology \notin {"pi", "t"}) =>
        result = Raise("Topology must be 'pi' or 't'")

\* a Bessel call with an unknown topology and the order 10
C18_BesselTenthOrderUnknownTopology ==
    /\ Evaluated({"lowpass.calculate_bessel"})
    /\ args.topology = "ladder"
    /\ args.num_components = 10
    /\ result = Raise("Topology must be 'pi' or 't'")

(***************************************************************************)
(* Properties of the E-series validation                                   *)
(***************************************************************************)
\* C19: find_closest_single, find_parallel_combo and match_component raise,
\* and return no match, for a series name outside {E12, E24, E96} and for a
\* target <= 0
C19_ESeriesInputsValidated ==
    Evaluated({"find_closest_single", "find_parallel_combo", "match_component"}) =>
        /\ args.series \notin {"E12", "E24", "E96"} => result = Raise("Unknown series")
        /\ (args.series \in {"E12", "E24", "E96"} /\ FLe(args.target, FZero)) =>
              result = Raise("Value must be positive")
        /\ (args.series \in {"E12", "E24", "E96"} /\ FGt(args.target, FZero)) =>
              result.status = "ok"

\* a parallel search refused for a series that does not exist
C19_UnknownSeriesRefused ==
    /\ Evaluated({"find_parallel_combo"})
    /\ args.series = "E48"
    /\ FGt(args.target, FZero)
    /\ result = Raise("Unknown series")

(***************************************************************************)
(* Properties of the command-line validation and parsing                   *)
(***************************************************************************)
\* the frequency and impedance the highpass command parsed from its arguments
RunFrequency == parse_frequency(OrElse(args.frequency, args.freq_flag)[1])

RunImpedance == parse_impedance(args.impedance)

\* the highpass command reached validate_filter_args
RunValidated ==
    /\ Evaluated({"highpass.run"})
    /\ ~args.explain
    /\ OrElse(args.filter_type, args.type_flag) # None
    /\ OrElse(args.frequency, args.freq_flag) # None
    /\ RunFrequency.status = "ok"
    /\ RunImpedance.status = "ok"

\* C16: validate_filter_args raises iff the frequency is <= 0, the impedance
\* is <= 0 or the component count is outside 2..9; the highpass command calls
\* it before any synthesis, so that it calls no calculator with an order
\* outside 2..9 or a non-positive frequency or impedance
C16_ValidationBeforeSynthesis ==
    /\ Evaluated({"validate_filter_args"}) =>
          (result.status = "error"
             <=> (FLe(args.freq_hz, FZero) \/ FLe(args.impedance, FZero)
                    \/ args.components \notin 2..9))
    /\ RunValidated =>
          LET valid == validate_filter_args(RunFrequency.value, RunImpedance.value,
                                            args.components)
          IN  /\ valid.status = "error" => result = valid
              /\ valid.status = "ok" =>
                    (FGt(RunFrequency.value, FZero) /\ FGt(RunImpedance.value, FZero)
                        /\ args.components \in 2..9)
    /\ (Evaluated({"highpass.run"}) /\ "call" \in DOMAIN result) =>
          /\ RunValidated
          /\ result.call.num_components \in 2..9
          /\ FGt(result.call.cutoff_hz, FZero)
          /\ FGt(result.call.impedance, FZero)

\* the highpass command refusing ten components before any calculator is called
C16_TenComponentsRefused ==
    /\ RunValidated
    /\ args.components = 10
    /\ result = Raise("Components must be 2-9")

\* C20: parse_frequency and parse_impedance raise a ValueError for every input
\* whose numeric value is zero or negative, with or without a unit suffix, and
\* never return a non-positive number
C20_ParsersRejectNonPositive ==
    (Evaluated({"parse_frequency", "parse_impedance"}) /\ result.status = "ok") =>
        FGt(result.value, FZero)

(***************************************************************************)
(* Sequences of calls.  The package keeps its tables in module-level       *)
(* dictionaries of lists; a caller keeps the lists it was returned and may *)
(* assign to their items before it calls again.  A list object is either   *)
(* an object of its own or the very list of a table entry.                 *)
(***************************************************************************)
\* the lists a caller holds at a time
MaxHeld == 2

\* a list object of its own, with these items
NewList(items) == [entry |-> None, items |-> items]

\* the list object found in the table at the keys of entry
TableList(entry) == [entry |-> Some(entry), items |-> << >>]

\* the items of the table entry: tables[name][key] or tables[name][key][key2]
EntryItems(entry) ==
    IF Len(entry) = 2 THEN tables[entry[1]][entry[2]]
    ELSE tables[entry[1]][entry[2]][entry[3]]

\* the items of a list object
Items(list) == IF list.entry = None THEN list.items ELSE EntryItems(list.entry[1])

\* returning the list of the table entry itself
TableEntryItself(entry) == TableList(entry)

\* list.copy() on the list of a table entry: a new list with the same items
list_copy(entry) == NewList(EntryItems(entry))

\* what a function that reads the tables named returns: value, as long as
\* these tables are as loaded; a function that finds them changed computes
\* from the changed tables, which is all the model records of it
FromTables(names, value) ==
    IF \A name \in names : tables[name] = ModuleTables[name] THEN value
    ELSE [status |-> "computed from changed tables"]

\* the lists of the caller after it received these: the newest MaxHeld
Received(lists) ==
    LET All(h) == SubSeq(h, Len(h) - MaxHeld + 1, Len(h))
    IN  IF Len(held) + Len(lists) <= MaxHeld THEN held \o lists
        ELSE All(held \o lists)

SessionOrders == {1, 2, 3, MaxOrder - 1, MaxOrder}

InitSession ==
    /\ op = "import filter_lib"
    /\ args = << >>
    /\ result = Pending
    /\ tables = ModuleTables
    /\ held = << >>
    /\ pc = "none"
    /\ asked = {}

\* get_bessel_g_values(n) in a sequence of calls
SessionGetBesselGValues ==
    \E n \in SessionOrders :
        LET Returned(r) ==
                /\ result' = r
                /\ held' = IF r.status = "ok"
                           THEN Received(<<list_copy(<<"BESSEL_G_VALUES", n>>)>>)
                           ELSE held
        IN  /\ op' = "get_bessel_g_values"
            /\ args' = [n |-> n]
            /\ Returned(FromTables({"BESSEL_G_VALUES"}, get_bessel_g_values(n)))
            /\ UNCHANGED <<tables, pc, asked>>

\* get_chebyshev_g_values(n, ripple_db) in a sequence of calls
SessionGetChebyshevGValues ==
    \E n \in {3, 4}, ripple_db \in {FDec(2, 1), Ripple05} :
        LET Returned(r) ==
                /\ result' = r
                /\ held' = IF r.status = "ok"
                           THEN Received(<<list_copy(<<"CHEBYSHEV_G_VALUES",
                                                       ripple_db, n>>)>>)
                           ELSE held
        IN  /\ op' = "get_chebyshev_g_values"
            /\ args' = [n |-> n, ripple_db |-> ripple_db]
            /\ Returned(FromTables({"CHEBYSHEV_G_VALUES"},
                                   get_chebyshev_g_values(n, ripple_db)))
            /\ UNCHANGED <<tables, pc, asked>>

\* lowpass calculate_bessel in a sequence of calls: capacitors and inductors
\* are lists the function builds
SessionCalculateBessel ==
    \E n \in {2, MaxOrder}, topology \in {"pi", "t"} :
        LET Returned(r) ==
                /\ result' = r
                /\ held' = IF r.status = "ok"
                           THEN Received(<<NewList(r.value.capacitors),
                                           NewList(r.value.inductors)>>)
                           ELSE held
        IN  /\ op' = "lowpass.calculate_bessel"
            /\ args' = [cutoff_hz |-> FInt(1024000), impedance |-> FInt(50),
                        num_components |-> n, topology |-> topology]
            /\ Returned(FromTables({"BESSEL_G_VALUES"},
                            lowpass_calculate_bessel(FInt(1024000), FInt(50), n,
                                                     topology)))
            /\ UNCHANGED <<tables, pc, asked>>

\* find_closest_single in a sequence of calls: it returns a tuple of floats
SessionFindClosestSingle ==
    \E target \in {FInt(47), FInt(5000)}, series \in {"E12", "E48"} :
        /\ op' = "find_closest_single"
        /\ args' = [target |-> target, series |-> series]
        /\ result' = FromTables({"E_SERIES"}, find_closest_single(target, series))
        /\ UNCHANGED <<tables, held, pc, asked>>

\* lowpass bessel_response in a sequence of calls: it returns a float
SessionBesselResponse ==
    \E freq_hz \in {FInt(512000), FInt(2048000)}, order \in {3, MaxOrder} :
        /\ op' = "lowpass.bessel_response"
        /\ args' = [freq_hz |-> freq_hz, cutoff_hz |-> FInt(1024000),
                    order |-> order]
        /\ result' = FromTables({"BESSEL_COEFFS", "BESSEL_SCALE"},
                         lowpass_bessel_response(freq_hz, FInt(1024000), order))
        /\ UNCHANGED <<tables, held, pc, asked>>

\* a caller assigns 0.0 to the first item of a list it holds; the list of a
\* table entry is the table's own
SessionMutateList ==
    \E h \in 1..Len(held) :
        LET Assign(list, items) ==
                IF list.entry = None
                THEN /\ held' = [held EXCEPT ![h] = NewList(items)]
                     /\ UNCHANGED tables
                ELSE /\ tables' =
                            IF Len(list.entry[1]) = 2
                            THEN [tables EXCEPT ![list.entry[1][1]][list.entry[1][2]]
                                                  = items]
                            ELSE [tables EXCEPT ![list.entry[1][1]][list.entry[1][2]]
                                                   [list.entry[1][3]] = items]
                     /\ UNCHANGED held
        IN  /\ Len(Items(held[h])) > 0
            /\ Items(held[h])[1] # FZero
            /\ Assign(held[h], [Items(held[h]) EXCEPT ![1] = FZero])
            /\ UNCHANGED <<op, args, result, pc, asked>>

NextSession ==
    \/ SessionGetBesselGValues
    \/ SessionGetChebyshevGValues
    \/ SessionCalculateBessel
    \/ SessionFindClosestSingle
    \/ SessionBesselResponse
    \/ SessionMutateList

SpecSession == InitSession /\ [][NextSession]_vars

\* what the call recorded in the state returns with the tables as loaded
SessionExpected ==
    CASE op = "get_bessel_g_values" -> get_bessel_g_values(args.n)
      [] op = "get_chebyshev_g_values" ->
            get_chebyshev_g_values(args.n, args.ripple_db)
      [] op = "lowpass.calculate_bessel" ->
            lowpass_calculate_bessel(args.cutoff_hz, args.impedance,
                                     args.num_components, args.topology)
      [] op = "find_closest_single" -> find_closest_single(args.target, args.series)
      [] op = "lowpass.bessel_response" ->
            lowpass_bessel_response(args.freq_hz, args.cutoff_hz, args.order)
      [] OTHER -> Pending

\* C21: after any sequence of lookups, synthesis and evaluation calls, with
\* callers assigning to the lists they were returned in between, the
\* module-level tables are as loaded, no list a caller holds is a list of
\* the tables, and the call recorded in the state returned what its
\* arguments determine.
C21_TablesUnchangedAndCallsRepeatable ==
    /\ tables = ModuleTables
    /\ \A h \in 1..Len(held) : held[h].entry = None
    /\ result = SessionExpected

\* C21 witness: the caller holds a list of Bessel g-values whose first item it
\* overwrote, and the same lookup, repeated, returned the table's values.
C21_LookupRepeatedAfterMutation ==
    /\ op = "get_bessel_g_values"
    /\ result.status = "ok"
    /\ \E h \in 1..Len(held) :
          /\ held[h].items # result.value
          /\ held[h].items = [result.value EXCEPT ![1] = FZero]

(***************************************************************************)
(* Direct calls of calculate_tank_capacitors                               *)
(***************************************************************************)
\* resonant and coupling capacitances of the direct calls, in picofarads
TankResonant == {FInt(100), FDec(22457, 2), FDec(6737, 1)}

TankCoupling == {FDec(112, 2), FDec(47, 1)}

\* the coupling lists of n_resonators - 1 items
CouplingLists(n_resonators) == [1..(n_resonators - 1) -> TankCoupling]

InitTank ==
    /\ op = "calculate_tank_capacitors"
    /\ \E n \in 1..MaxOrder :
          args \in [n_resonators : {n}, c_resonant : TankResonant,
                    c_coupling : CouplingLists(n)]
    /\ result = Pending
    /\ SingleCall

\* a call of calculate_tank_capacitors
CallCalculateTankCapacitors ==
    /\ op = "calculate_tank_capacitors"
    /\ result = Pending
    /\ result' = Ok(calculate_tank_capacitors(args.n_resonators, args.c_resonant,
                                              args.c_coupling))
    /\ UNCHANGED <<op, args, tables, held, pc, asked>>

NextTank == CallCalculateTankCapacitors

SpecTank == InitTank /\ [][NextTank]_vars

\* sum(values): the items added from the left, starting from 0
RECURSIVE FSum(_, _, _)
FSum(values, i, acc) ==
    IF i > Len(values) THEN acc
    ELSE CASE Computed(acc) -> FSum(values, i + 1, FAdd(acc, values[i]))

\* sum(c_tank) + 2 * sum(c_coupling) of a call
TankTotal == FAdd(FSum(result.value, 1, FZero),
                  FMul(FTwo, FSum(args.c_coupling, 1, FZero)))

\* n * c_resonant of a call
TankNominal == FMul(FInt(args.n_resonators), args.c_resonant)

\* the ends and the single resonator of a call are as the claim has them
TankEnds ==
    LET n == args.n_resonators
        C == args.c_resonant
        Cs == args.c_coupling
        Cp == result.value
    IN  /\ Len(Cp) = n
        /\ n = 1 => Cp[1] = C
        /\ n > 1 => Cp[1] = FSub(C, Cs[1]) /\ Cp[n] = FSub(C, Cs[n - 1])

PolynomialArguments ==
    {FInt(0 - 2), FNeg(FDec(15, 1)), FNeg(FDec(125, 2)), FInt(0 - 1),
     FNeg(FDec(5, 1)), FZero, FDec(3, 1), FDec(5, 1), FOne, FDec(125, 2), FDec(15, 1), FTwo}

InitPolynomial ==
    /\ op \in {"bandpass.chebyshev_polynomial", "shared.chebyshev_polynomial"}
    /\ args \in [n : 0..MaxOrder, x : PolynomialArguments]
    /\ result = Pending
    /\ SingleCall

\* a call of chebyshev_polynomial of bandpass/transfer.py
CallBandpassChebyshevPolynomial ==
    /\ op = "bandpass.chebyshev_polynomial"
    /\ result = Pending
    /\ result' = Ok(bandpass_chebyshev_polynomial(args.n, args.x))
    /\ UNCHANGED <<op, args, tables, held, pc, asked>>

\* a call of chebyshev_polynomial of shared/transfer_functions.py
CallSharedChebyshevPolynomial ==
    /\ op = "shared.chebyshev_polynomial"
    /\ result = Pending
    /\ result' = Ok(chebyshev_polynomial(args.n, args.x))
    /\ UNCHANGED <<op, args, tables, held, pc, asked>>

NextPolynomial == CallBandpassChebyshevPolynomial \/ CallSharedChebyshevPolynomial

SpecPolynomial == InitPolynomial /\ [][NextPolynomial]_vars

\* a and b are the same value up to the rounding of the two evaluations:
\* they differ by at most 1/32 of the larger of 1 and |b|
SameUpToRounding(a, b) ==
    FLe(FMul(FInt(32), FAbs(FSub(a, b))), FMax(FOne, FAbs(b)))

\* C23: for every order n >= 0 and every x, x > 1 and x < -1 included, the
\* band-pass chebyshev_polynomial returns the value of the three-term
\* recurrence of the shared chebyshev_polynomial (up to rounding)
C23_BandpassPolynomialIsTheRecurrence ==
    (op = "bandpass.chebyshev_polynomial" /\ result.status = "ok") =>
        SameUpToRounding(result.value, chebyshev_polynomial(args.n, args.x))

(***************************************************************************)
(* Properties of the parallel combinations                                 *)
(***************************************************************************)
\* find_parallel_combo has returned (a combination or None)
ParallelSearched ==
    /\ op = "find_parallel_combo"
    /\ result # Pending
    /\ result.status = "ok"

\* the mode a call works in: 'auto' is additive iff target < 1e-6
ModeOfCall ==
    IF args.mode = "auto"
    THEN IF FLt(args.target, FDec(1, 6)) THEN "additive" ELSE "harmonic"
    ELSE args.mode

\* the values of the series of the call in these decades, each a mantissa of
\* the series times a power of ten
SeriesInDecades(decades) ==
    {_denormalize(SeriesValues[args.series][i], d) :
        i \in 1..Len(SeriesValues[args.series]), d \in decades}

\* larger / smaller <= ratio_limit
WithinRatio(v1, v2) ==
    FLe(FDiv(FMax(v1, v2), FMin(v1, v2)), args.ratio_limit)

\* the unordered pairs (v1 <= v2, a value with itself included) of these
\* values within the ratio limit of the call
AdmissiblePairs(values) ==
    {p \in values \X values : FLe(p[1], p[2]) /\ WithinRatio(p[1], p[2])}

\* C24: in additive mode find_parallel_combo returns a pair of candidates of
\* the decades decade-1 .. decade+2 of the target within the ratio limit, a
\* value paired with itself included, whose sum has the smallest absolute
\* percent error among all such pairs; it returns None only when there is no
\* such pair
C24_AdditivePairMinimal ==
    (ParallelSearched /\ ModeOfCall = "additive") =>
        LET Minimal(pairs, found) ==
                /\ found.combo \in pairs
                /\ found.value = FAdd(found.combo[1], found.combo[2])
                /\ found.error_pct = _error_pct(found.value, args.target)
                /\ \A p \in pairs :
                      FLe(FAbs(found.error_pct),
                          FAbs(_error_pct(FAdd(p[1], p[2]), args.target)))
            Searched(pairs) ==
                IF pairs = {} THEN result.value = None
                ELSE result.value # None /\ Minimal(pairs, result.value[1])
            Decades(decade) ==
                Searched(AdmissiblePairs(SeriesInDecades((decade - 1)..(decade + 2))))
        IN  Decades(_normalize(args.target)[2])

\* C24 witness: an additive search, chosen by 'auto' for a capacitance, that
\* returned a pair of a value of the decade below the target and a value of
\* the target's decade, with an error that is not 0
C24_AdditivePairAcrossDecades ==
    /\ ParallelSearched
    /\ args.mode = "auto"
    /\ ModeOfCall = "additive"
    /\ result.value # None
    /\ result.value[1].error_pct # FZero
    /\ _normalize(result.value[1].combo[1])[2] < _normalize(result.value[1].combo[2])[2]

\* C25: a combination (v1, v2) returned by find_parallel_combo, in either
\* mode, has v1 <= v2 and max / min <= ratio_limit, both values are a
\* mantissa of the requested series times a power of ten, and the reported
\* value is v1 + v2 in additive mode and v1 * v2 / (v1 + v2) in harmonic mode,
\* 'auto' being additive iff target < 1e-6
C25_CombinationWellFormed ==
    (ParallelSearched /\ result.value # None) =>
        LET Standard(v) == v \in SeriesInDecades({_normalize(v)[2]})
            WellFormed(v1, v2, value) ==
                /\ FLe(v1, v2)
                /\ WithinRatio(v1, v2)
                /\ Standard(v1)
                /\ Standard(v2)
                /\ value = IF ModeOfCall = "additive" THEN FAdd(v1, v2)
                           ELSE FDiv(FMul(v1, v2), FAdd(v1, v2))
        IN  WellFormed(result.value[1].combo[1], result.value[1].combo[2],
                       result.value[1].value)

\* C25 witness: a harmonic search, chosen by 'auto' for a resistance, that
\* returned two different values
C25_HarmonicPairFound ==
    /\ ParallelSearched
    /\ args.mode = "auto"
    /\ ModeOfCall = "harmonic"
    /\ result.value # None
    /\ FLt(result.value[1].combo[1], result.value[1].combo[2])

(***************************************************************************)
(* The high-pass responses as transformed low-pass responses               *)
(***************************************************************************)
\* the evaluation frequencies of the three high-pass responses: zero, and
\* frequencies below, at and above the two cutoffs
MirrorFreqs ==
    {FInt(hz) : hz \in {0, 100000, 300000, 500000, 700000, 1000000, 1500000,
                        3000000, 7000000, 10240000}}

MirrorCutoffs == {TransferCutoff, FInt(10240000)}

InitMirror ==
    /\ \/ /\ op \in {"highpass.butterworth_response", "highpass.bessel_response"}
          /\ args \in [freq_hz : MirrorFreqs, cutoff_hz : MirrorCutoffs,
                        order : 1..MaxOrder]
       \/ /\ op = "highpass.chebyshev_response"
          /\ args \in [freq_hz : MirrorFreqs, cutoff_hz : MirrorCutoffs,
                        order : 1..MaxOrder, ripple_db : {Ripple01, Ripple05}]
    /\ result = Pending
    /\ SingleCall

CallHighpassChebyshevResponse ==
    /\ op = "highpass.chebyshev_response"
    /\ result = Pending
    /\ result' = highpass_chebyshev_response(args.freq_hz, args.cutoff_hz,
                                             args.order, args.ripple_db)
    /\ UNCHANGED <<op, args, tables, held, pc, asked>>

NextMirror ==
    \/ CallHighpassButterworthResponse
    \/ CallHighpassChebyshevResponse
    \/ CallHighpassBesselResponse

SpecMirror == InitMirror /\ [][NextMirror]_vars

\* a high-pass response of an order of the tables was evaluated
MirrorEvaluated ==
    /\ op \in {"highpass.butterworth_response", "highpass.chebyshev_response",
               "highpass.bessel_response"}
    /\ result # Pending
    /\ args.order \in 2..9

\* fc^2 / f, as the floating-point expression cutoff_hz ** 2 / freq_hz
MirroredFrequency == FDiv(FMul(args.cutoff_hz, args.cutoff_hz), args.freq_hz)

\* the low-pass response of the same family at the frequency g
LowpassAt(g) ==
    CASE op = "highpass.butterworth_response" ->
             lowpass_butterworth_response(g, args.cutoff_hz, args.order)
      [] op = "highpass.chebyshev_response" ->
             lowpass_chebyshev_response(g, args.cutoff_hz, args.order, args.ripple_db)
      [] op = "highpass.bessel_response" ->
             lowpass_bessel_response(g, args.cutoff_hz, args.order)

\* the ratio of the high-pass evaluation and the ratio of the low-pass
\* evaluation at the mirrored frequency are the same floating-point number
SameRatio ==
    FDiv(args.cutoff_hz, args.freq_hz) = FDiv(MirroredFrequency, args.cutoff_hz)

BesselByPosition ==
    LET n == args.num_components
        omega == Omega(args.cutoff_hz)
        g_values == BESSEL_G_VALUES[n]
    IN  IF op = "lowpass.calculate_bessel"
        THEN LadderLists(n, [i \in 1..n |-> LowpassIsCapacitor(args.topology, i)],
                 [i \in 1..n |-> LowpassValues(g_values[i], args.impedance, omega)])
        ELSE LadderLists(n, [i \in 1..n |-> HighpassIsCapacitor(args.topology, i)],
                 [i \in 1..n |-> HighpassValues(g_values[i], args.impedance, omega)])

\* the numbers of capacitors and of inductors of a returned ladder
ElementCounts(ladder) ==
    <<Len(ladder.value.capacitors), Len(ladder.value.inductors)>>

\* the Butterworth and the Chebyshev ladder of the same module for the
\* arguments of the Bessel call
ButterworthSibling ==
    IF op = "lowpass.calculate_bessel"
    THEN lowpass_calculate_butterworth(args.cutoff_hz, args.impedance,
             args.num_components, args.topology)
    ELSE highpass_calculate_butterworth(args.cutoff_hz, args.impedance,
             args.num_components, args.topology)

ChebyshevSibling ==
    IF op = "lowpass.calculate_bessel"
    THEN lowpass_calculate_chebyshev(args.cutoff_hz, args.impedance, Ripple05,
             args.num_components, args.topology)
    ELSE highpass_calculate_chebyshev(args.cutoff_hz, args.impedance, Ripple05,
             args.num_components, args.topology)

PyInt(str) ==
    LET IsDigits(s) == \A i \in DOMAIN s : \E d \in DOMAIN DecimalDigits : DecimalDigits[d] = s[i]
        Signed(sign, body) ==
            IF body = << >> \/ ~IsDigits(body) THEN None
            ELSE Some(sign * DecimalValue(body, 0))
        Stripped(s) ==
            IF s # << >> /\ Head(s) = "-" THEN Signed(-1, Tail(s))
            ELSE IF s # << >> /\ Head(s) = "+" THEN Signed(1, Tail(s))
            ELSE Signed(1, s)
    IN  Stripped(Strip(str))

\* validate_order(value)
validate_order(value) ==
    LET Checked(n) ==
            IF n = None THEN Raise("invalid literal for int() with base 10")
            ELSE IF ~(2 <= n[1] /\ n[1] <= 9) THEN Raise("Order must be 2-9")
            ELSE Ok(n[1])
    IN  Checked(PyInt(value))

\* validate_ripple(value)
validate_ripple(value) ==
    LET Checked(r) ==
            IF r = None THEN CouldNotConvert
            ELSE IF r[1] \notin {FDec(1, 1), FDec(5, 1), FInt(1)}
            THEN Raise("Ripple must be 0.1, 0.5, or 1.0 dB")
            ELSE Ok(r[1])
    IN  Checked(PyFloat(value))

\* prompt_input: the value handed to the validator for the text the user
\* entered, the default taking the place of an empty entry
Entered(answer, default) ==
    IF Strip(answer) = << >> /\ default # << >> THEN default ELSE Strip(answer)

DEFAULT_IMPEDANCE == <<"5", "0">>

DEFAULT_ORDER == <<"3">>

DEFAULT_RESONATORS == <<"5">>

DEFAULT_RIPPLE == <<"0", ".", "5">>

\* what the user types at the prompts: valid entries, empty entries that take
\* the default, and entries the validators reject
FrequencyAnswers == {<<"1", "0", "M", "H", "z">>, <<"0">>, <<"a", "b", "c">>}

BandwidthAnswers ==
    {<<"5", "0", "0", "k", "H", "z">>, <<"5", "M", "H", "z">>, <<"0">>, << >>}

ImpedanceAnswers == {<<"5", "0">>, << >>, <<"0">>, <<"o", "h", "m">>}

OrderAnswers == {<<"3">>, <<"4">>, << >>, <<"1">>, <<"1", "0">>, <<"x">>}

RippleAnswers == {<<"0", ".", "1">>, << >>, <<"2">>, <<"l", "o", "w">>}

\* the locals of the wizard function, none assigned yet
NoLocals ==
    [category |-> None, filter_type |-> None, coupling |-> None, freq_hz |-> None,
     bw |-> None, impedance |-> None, n |-> None, ripple |-> None]

\* the wizard waits for an answer
AtPrompt ==
    pc \in {"prompt_filter_category", "prompt_filter_type", "prompt_coupling",
            "prompt_frequency", "prompt_bandwidth", "prompt_impedance",
            "prompt_order", "prompt_ripple", "show_summary", "prompt_show_plot"}

\* the wizard has ended: the user cancelled, the result was displayed, or an
\* exception left run_wizard
WizardEnded == pc \in {"cancelled", "displayed", "raised"}

Bandpass == args.category = Some("bandpass")

InitWizard ==
    /\ op = "run_wizard"
    /\ args = NoLocals
    /\ result = Pending
    /\ tables = ModuleTables
    /\ held = << >>
    /\ pc = "prompt_filter_category"
    /\ asked = {}

\* `continue`, or the end of the except clause: the loop starts over
StartOver ==
    /\ pc' = "prompt_filter_type"
    /\ asked' = {}
    /\ args' = [NoLocals EXCEPT !.category = args.category]

\* _prompt_filter_category() and the dispatch of run_wizard
PromptFilterCategory ==
    /\ pc = "prompt_filter_category"
    /\ \E category \in {"lowpass", "highpass", "bandpass"} :
          args' = [args EXCEPT !.category = Some(category)]
    /\ pc' = "prompt_filter_type"
    /\ UNCHANGED <<op, result, tables, held, asked>>

\* filter_type = prompt_filter_type()
PromptFilterType ==
    /\ pc = "prompt_filter_type"
    /\ \E filter_type \in FilterTypes :
          args' = [args EXCEPT !.filter_type = Some(filter_type)]
    /\ pc' = IF Bandpass THEN "prompt_coupling" ELSE "prompt_frequency"
    /\ asked' = asked \cup {pc}
    /\ UNCHANGED <<op, result, tables, held>>

\* coupling = prompt_coupling()
PromptCoupling ==
    /\ pc = "prompt_coupling"
    /\ \E choice \in {"1", "2"} :
          args' = [args EXCEPT !.coupling = Some(IF choice = "1" THEN "top" ELSE "shunt")]
    /\ pc' = "prompt_frequency"
    /\ asked' = asked \cup {pc}
    /\ UNCHANGED <<op, result, tables, held>>

\* freq_hz = prompt_input("Cutoff frequency", validator=parse_frequency), or
\* f0 = prompt_input("Center frequency", ...); a rejected entry is asked again
PromptFrequency ==
    /\ pc = "prompt_frequency"
    /\ \E answer \in FrequencyAnswers :
          LET value == parse_frequency(Entered(answer, << >>))
          IN  IF value.status = "error" THEN UNCHANGED <<args, pc, asked>>
              ELSE /\ args' = [args EXCEPT !.freq_hz = Some(value.value)]
                   /\ pc' = IF Bandpass THEN "prompt_bandwidth" ELSE "prompt_impedance"
                   /\ asked' = asked \cup {pc}
    /\ UNCHANGED <<op, result, tables, held>>

\* bw = prompt_input("Bandwidth", validator=parse_frequency) and
\* fbw = bw / f0, which raises ZeroDivisionError for f0 == 0; the warnings
\* the wizard prints for a wide fbw change no state
PromptBandwidth ==
    /\ pc = "prompt_bandwidth"
    /\ \E answer \in BandwidthAnswers :
          LET value == parse_frequency(Entered(answer, << >>))
          IN  IF value.status = "error"
              THEN UNCHANGED <<args, pc, asked, result>>
              ELSE IF args.freq_hz = Some(FZero)
              THEN /\ result' = ZeroDivisionError
                   /\ pc' = "raised"
                   /\ args' = [args EXCEPT !.bw = Some(value.value)]
                   /\ asked' = asked \cup {pc}
              ELSE /\ args' = [args EXCEPT !.bw = Some(value.value)]
                   /\ pc' = "prompt_impedance"
                   /\ asked' = asked \cup {pc}
                   /\ UNCHANGED result
    /\ UNCHANGED <<op, tables, held>>

\* impedance = prompt_input("Impedance", default=DEFAULT_IMPEDANCE,
\*                          validator=parse_impedance)
PromptImpedance ==
    /\ pc = "prompt_impedance"
    /\ \E answer \in ImpedanceAnswers :
          LET value == parse_impedance(Entered(answer, DEFAULT_IMPEDANCE))
          IN  IF value.status = "error" THEN UNCHANGED <<args, pc, asked>>
              ELSE /\ args' = [args EXCEPT !.impedance = Some(value.value)]
                   /\ pc' = "prompt_order"
                   /\ asked' = asked \cup {pc}
    /\ UNCHANGED <<op, result, tables, held>>

\* n = prompt_input("Order" or "Resonators", default, validator=validate_order);
\* the band-pass wizard makes an even Chebyshev count odd; ripple = 0.5
PromptOrder ==
    /\ pc = "prompt_order"
    /\ \E answer \in OrderAnswers :
          LET value == validate_order(Entered(answer,
                           IF Bandpass THEN DEFAULT_RESONATORS ELSE DEFAULT_ORDER))
              Odd(n) ==
                  IF Bandpass /\ args.filter_type = Some("chebyshev") /\ n % 2 = 0
                  THEN n + 1 ELSE n
          IN  IF value.status = "error" THEN UNCHANGED <<args, pc, asked>>
              ELSE /\ args' = [args EXCEPT !.n = Some(Odd(value.value)),
                                           !.ripple = Some(FDec(5, 1))]
                   /\ pc' = IF args.filter_type = Some("chebyshev")
                            THEN "prompt_ripple" ELSE "show_summary"
                   /\ asked' = asked \cup {pc}
    /\ UNCHANGED <<op, result, tables, held>>

\* ripple = prompt_input("Ripple dB", default=DEFAULT_RIPPLE,
\*                       validator=validate_ripple)
PromptRipple ==
    /\ pc = "prompt_ripple"
    /\ \E answer \in RippleAnswers :
          LET value == validate_ripple(Entered(answer, DEFAULT_RIPPLE))
          IN  IF value.status = "error" THEN UNCHANGED <<args, pc, asked>>
              ELSE /\ args' = [args EXCEPT !.ripple = Some(value.value)]
                   /\ pc' = "show_summary"
                   /\ asked' = asked \cup {pc}
    /\ UNCHANGED <<op, result, tables, held>>

\* a summary whose rejection is followed by the calculation as well
ShowSummaryProceedingAnyway ==
    /\ pc = "show_summary"
    /\ \E confirmed \in BOOLEAN :
          /\ pc' = "calculate"
          /\ asked' = IF confirmed THEN asked \cup {pc} ELSE asked
          /\ UNCHANGED args
    /\ UNCHANGED <<op, result, tables, held>>

\* if not show_summary(category, params): continue
ShowSummary ==
    /\ pc = "show_summary"
    /\ \E confirmed \in BOOLEAN :
          IF confirmed
          THEN /\ pc' = "calculate"
               /\ asked' = asked \cup {pc}
               /\ UNCHANGED args
          ELSE StartOver
    /\ UNCHANGED <<op, result, tables, held>>

\* run_filter_wizard: the call of the calculator of the chosen family with
\* three (four for Chebyshev) positional arguments; the TypeError leaves the
\* loop, the function and run_wizard
FilterCalculate ==
    /\ pc = "calculate"
    /\ ~Bandpass
    /\ result' =
          LET given == [cutoff_hz |-> args.freq_hz[1], impedance |-> args.impedance[1],
                        num_components |-> args.n[1]]
          IN  IF args.filter_type = Some("butterworth")
              THEN MissingTopology("calculate_butterworth", given)
              ELSE IF args.filter_type = Some("chebyshev")
              THEN MissingTopology("calculate_chebyshev", given)
              ELSE MissingTopology("calculate_bessel", given)
    /\ pc' = IF result'.status = "error" THEN "raised" ELSE "prompt_output_options"
    /\ UNCHANGED <<op, args, tables, held, asked>>

\* the except clause of run_bandpass_wizard: the error as it is printed
Reported(e) ==
    [status |-> "error", error |-> e.error,
     printed |-> <<"Error: " \o e.error,
                   "Try reducing bandwidth or number of resonators.">>]

\* run_bandpass_wizard: result = calculate_bandpass_filter(...); a ValueError
\* is printed and the loop starts over
BandpassCalculate ==
    /\ pc = "calculate"
    /\ Bandpass
    /\ LET calculated ==
               calculate_bandpass_filter(args.freq_hz[1], args.bw[1], args.impedance[1],
                   args.n[1], args.filter_type[1], args.coupling[1],
                   IF args.filter_type = Some("chebyshev") THEN args.ripple[1]
                   ELSE FDec(5, 1),
                   FInt(2))
       IN  IF calculated.status = "error"
           THEN /\ result' = Reported(calculated)
                /\ StartOver
           ELSE /\ result' = calculated
                /\ pc' = "prompt_show_plot"
                /\ UNCHANGED <<args, asked>>
    /\ UNCHANGED <<op, tables, held>>

\* show_plot = prompt_show_plot(); display_results(result, show_plot); break
BandpassDisplay ==
    /\ pc = "prompt_show_plot"
    /\ \E show_plot \in BOOLEAN : pc' = "displayed"
    /\ asked' = asked \cup {pc}
    /\ UNCHANGED <<op, args, result, tables, held>>

\* Ctrl+C, or the end of the input, at any prompt: KeyboardInterrupt, which
\* run_wizard answers with "Wizard cancelled." and sys.exit(0)
Cancel ==
    /\ AtPrompt
    /\ pc' = "cancelled"
    /\ UNCHANGED <<op, args, result, tables, held, asked>>

NextWizard ==
    \/ PromptFilterCategory
    \/ PromptFilterType
    \/ PromptCoupling
    \/ PromptFrequency
    \/ PromptBandwidth
    \/ PromptImpedance
    \/ PromptOrder
    \/ PromptRipple
    \/ ShowSummary
    \/ FilterCalculate
    \/ BandpassCalculate
    \/ BandpassDisplay
    \/ Cancel

SpecWizard == InitWizard /\ [][NextWizard]_vars

(***************************************************************************)
(* Properties of the wizards                                               *)
(***************************************************************************)
\* the prompts of one pass of the loop of the chosen wizard, the confirmed
\* summary included
PromptsOfPass ==
    {"prompt_filter_type", "prompt_frequency", "prompt_impedance", "prompt_order",
     "show_summary"}
    \cup (IF Bandpass THEN {"prompt_coupling", "prompt_bandwidth"} ELSE {})
    \cup (IF args.filter_type = Some("chebyshev") THEN {"prompt_ripple"} ELSE {})

\* C28: in both wizards a calculation is only performed after the user
\* confirmed the summary of the parameters entered in the current pass; when
\* the user rejects the summary no calculation is performed and the wizard
\* restarts from the filter-type prompt, asking every parameter again
C28_CalculationOnlyAfterConfirmedSummary ==
    [][/\ pc' = "calculate" => (pc = "show_summary" /\ asked' = PromptsOfPass')
       /\ (pc # "calculate" /\ pc' # "raised") => result' = result
       /\ (pc = "show_summary" /\ pc' \notin {"calculate", "cancelled"}) =>
              (pc' = "prompt_filter_type" /\ asked' = {} /\ result' = result)
       /\ pc' = "show_summary" => asked' = PromptsOfPass' \ {"show_summary"}]_vars

\* a band-pass Chebyshev filter calculated in a pass in which every prompt,
\* the ripple included, was answered and the summary confirmed
C28_ConfirmedPassCalculated ==
    /\ pc = "prompt_show_plot"
    /\ result.status = "ok"
    /\ args.filter_type = Some("chebyshev")
    /\ asked = PromptsOfPass

\* C29: in the low-pass/high-pass wizard, once the parameters are entered and
\* the summary is confirmed, the wizard computes the component values with the
\* supplied calculation function and goes on to display them
C29_ConfirmedFilterIsCalculated ==
    [][(pc = "calculate" /\ ~Bandpass) =>
           (result'.status = "ok" /\ pc' = "prompt_output_options")]_vars

\* C30: the band-pass wizard ends only after a calculation succeeded and its
\* result was displayed, or when the user cancels
C30_BandpassEndsDisplayedOrCancelled ==
    (Bandpass /\ WizardEnded) =>
        (pc = "cancelled" \/ (pc = "displayed" /\ result.status = "ok"))

=============================================================================
